---- MODULE Spec2Model ----
(***************************************************************************)
(* Verification model of subd (mikesmullin/subd): the session store, the   *)
(* session state machine, the Agent Loop, the host/container Bridge, the   *)
(* human approval and question pipelines, and the terminal allowlist.      *)
(***************************************************************************)
EXTENDS Integers, Sequences, FiniteSets, TLC

(***************************************************************************)
(* Bounds of the explored input space.                                     *)
(***************************************************************************)
MaxRules == 2
MaxSegs == 2
MaxShellSegs == 1

MaxProviderCalls == 1
MaxCallsPerMessage == 2
MaxSignals == 2
MaxTimeouts == 1
MaxMessages == 2

VARIABLES alInput, alResult, shCtx, shState, shExt, shLast

\* the session store: the files under each sessions directory, and the child's
\* YamlCollection (is the file newer than the cached object)
VARIABLES files, stale
\* the Agent Loop of the child: where it is suspended, isRunning, the tick's local
\* `session` object, whether that object (its metadata) is the cached object (the
\* cached object's metadata), the tool calls being processed, attemptedPrompts
VARIABLES pc, isRunning, session, sameObject, sameMetadata, toolCalls, ti,
          attemptedPrompts
\* the number of messages in the promptKey of the provider call in flight
VARIABLES promptKey
\* the Bridge: globals.toolCallStates of each process, the child's pending request,
\* the two directions of the socket
VARIABLES toolCallStates, messageCounter, pendingMessage, toHost, toContainer
\* per tool call: the state its last invocation returned with RUNNING, and the
\* external data delivered for it since then
VARIABLES callHistory
\* the host's approval and question stores, and globals.humanApprovalsCounter of
\* the host process
VARIABLES approvals, questions, humanApprovalsCounter
\* the environment: provider completions, signals and timeouts spent; the last
\* observable event
VARIABLES providerCalls, signals, timeouts, ev
\* the host's lifecycle command in flight: its action, the record its
\* SessionModel.load returned, and the statuses the session's record in the
\* workspace has held since the command was issued
VARIABLES hostCall

\* command resolution: the tool catalog and the argv given to resolveCommand, and
\* what it returned
VARIABLES rcInput, rcResult

\* merging the choices of a provider response: the loop that merges (the tick of
\* the agent loop or the loop of the single-shot CLI) and the choices; the merged
\* assistant message
VARIABLES mgInput, mgResult

\* one YamlCollection and its directory: the files, whether a file's mtime is later than the collection's lastReadTs of its id, the collection's items, filePaths, dirty, deleted and hasChanges; the last call made on the collection; per id the value of the last set that no set or delete of the id and no save has followed
VARIABLES disk, newer, items, filePaths, dirty, deleted, hasChanges, stLast, lastSet

\* the session ids: SessionModel.nextSessionId and initialized of the host process, the record files of agent/sessions, the ids the host's collection has loaded, the workspaces of db/workspaces, and the last id generated
VARIABLES nextSessionId, initialized, recordFiles, loadedIds, workspaces, idLast

\* the collection of db/groups and the last group command
VARIABLES groups, grLast

\* the sessions on disk when the host starts, the state of their containers, and what the recovery scan did
VARIABLES persisted, containers, recovery

\* one direction of a host-child socket: the lines sent, the lines not yet delivered, the invocations of the receiver's data handler that wait at an await, the lines whose handling has started, in order, and those whose handling has completed
VARIABLES lnSent, lnWire, lnHandlers, lnStarted, lnCompleted

\* the single-shot CLI: the counters of runLoop, the limits and the validate function of the template, and how the process ended
VARIABLES turnCount, validationFailCount, effectiveTurnLimit, maxValidationFails, validateFn, exitCode

\* the tool set of one tick: the plugin registry and the session's tools, and what the tick offers to the provider
VARIABLES gtInput, gtResult

\* the host's registry of the connections of the containers, and the connections that the socket servers have accepted
VARIABLES hostConnections, sockets

allowVars == <<alInput, alResult>>
shellVars == <<shCtx, shState, shExt, shLast>>
storeVars == <<files, stale>>
loopVars == <<pc, isRunning, session, sameObject, sameMetadata, toolCalls, ti,
              attemptedPrompts, promptKey>>
bridgeVars == <<toolCallStates, messageCounter, pendingMessage, toHost, toContainer,
                callHistory>>
humanVars == <<approvals, questions, humanApprovalsCounter>>
envVars == <<providerCalls, signals, timeouts>>
lifecycleVars == <<hostCall>>
sysVars == <<storeVars, loopVars, bridgeVars, humanVars, envVars, lifecycleVars, ev>>
resolveVars == <<rcInput, rcResult>>
mergeVars == <<mgInput, mgResult>>
collVars == <<disk, newer, items, filePaths, dirty, deleted, hasChanges, stLast, lastSet>>
idVars == <<nextSessionId, initialized, recordFiles, loadedIds, workspaces, idLast>>
grVars == <<groups, grLast>>
recVars == <<persisted, containers, recovery>>
sockVars == <<lnSent, lnWire, lnHandlers, lnStarted, lnCompleted>>
cliVars == <<turnCount, validationFailCount, effectiveTurnLimit, maxValidationFails, validateFn, exitCode>>
offerVars == <<gtInput, gtResult>>
connVars == <<hostConnections, sockets>>
\* the state of the parts that are specified one at a time, each on its own
unitVars == <<resolveVars, mergeVars, collVars, idVars, grVars, recVars, sockVars, cliVars, offerVars, connVars>>
vars == <<alInput, alResult, shCtx, shState, shExt, shLast, sysVars, unitVars>>

\* the orchestration is switched off: no process exists
IdleSys ==
    /\ files = <<>> /\ stale = FALSE
    /\ pc = "off" /\ isRunning = FALSE /\ session = <<>>
    /\ sameObject = FALSE /\ sameMetadata = FALSE
    /\ toolCalls = <<>> /\ ti = 1 /\ attemptedPrompts = {} /\ promptKey = 0
    /\ toolCallStates = <<>> /\ messageCounter = 0 /\ pendingMessage = 0
    /\ toHost = <<>> /\ toContainer = <<>> /\ callHistory = <<>>
    /\ approvals = <<>> /\ questions = <<>> /\ humanApprovalsCounter = 0
    /\ providerCalls = 0 /\ signals = 0 /\ timeouts = 0
    /\ hostCall = <<>>
    /\ ev = <<>>

\* no command is being resolved
IdleResolve == rcInput = <<>> /\ rcResult = <<>>

IdleMerge == mgInput = <<>> /\ mgResult = <<>>

IdleStore == disk = <<>> /\ newer = <<>> /\ items = <<>> /\ filePaths = {} /\ dirty = {} /\ deleted = {} /\ hasChanges = FALSE /\ stLast = <<>> /\ lastSet = <<>>

IdleIds == nextSessionId = 0 /\ initialized = FALSE /\ recordFiles = {} /\ loadedIds = {} /\ workspaces = {} /\ idLast = <<>>

IdleGroups == groups = <<>> /\ grLast = <<>>

IdleRecover == persisted = <<>> /\ containers = <<>> /\ recovery = <<>>

IdleSocket == lnSent = 0 /\ lnWire = <<>> /\ lnHandlers = {} /\ lnStarted = <<>> /\ lnCompleted = {}

IdleCli == turnCount = 0 /\ validationFailCount = 0 /\ effectiveTurnLimit = 0 /\ maxValidationFails = 0 /\ validateFn = FALSE /\ exitCode = "-"

IdleOffer == gtInput = <<>> /\ gtResult = <<>>

IdleConnections == hostConnections = <<>> /\ sockets = <<>>

IdleUnits == IdleResolve /\ IdleMerge /\ IdleStore /\ IdleIds /\ IdleGroups /\ IdleRecover /\ IdleSocket /\ IdleCli /\ IdleOffer /\ IdleConnections

(***************************************************************************)
(* Terminal allowlist (plugins/shell, terminal allowlist module).          *)
(*                                                                         *)
(* A command string is a sequence of segments separated by the shell       *)
(* operators || && ; | .  A segment has a base command word and possibly   *)
(* one inline substitution $(word).  The full command line, a split part   *)
(* and the inner command of a substitution are all command strings.        *)
(***************************************************************************)
Words == {"ls", "rm"}
NoSub == "-"
Subs == {NoSub, "rm"}
Segments == [base : Words, sub : Subs]
CommandLines == UNION {[1..n -> Segments] : n \in 0..MaxSegs}
ShellCommandLines == UNION {[1..n -> Segments] : n \in 0..MaxShellSegs}

\* A pattern is a literal command word or a /regex/ that finds the word
\* anywhere in the command string.
Patterns == [kind : {"lit", "re"}, word : Words] \ {[kind |-> "re", word |-> "ls"]}

\* A rule value is true, false, or an object {approve, matchCommandLine}.
RuleValues == [isObject : {FALSE}, approve : BOOLEAN, mcl : {FALSE}, isNull : {FALSE}]
              \cup [isObject : {TRUE}, approve : BOOLEAN, mcl : BOOLEAN, isNull : {FALSE}]
Rules == [pat : Patterns, value : RuleValues]

\* Object.entries(allowlist): rules in file order, keys (patterns) unique.
Allowlists == {al \in UNION {[1..n -> Rules] : n \in 0..MaxRules} :
                  \A i, j \in DOMAIN al : i # j => al[i].pat # al[j].pat}

NoRule == [kind |-> "none", word |-> "-"]

\* inner commands of the inline substitutions, in order of occurrence
RECURSIVE inlineCommands(_)
inlineCommands(line) ==
    IF line = <<>> THEN <<>>
    ELSE LET seg == Head(line)
             rest == inlineCommands(Tail(line))
         IN IF seg.sub # NoSub
            THEN <<(<<[base |-> seg.sub, sub |-> NoSub]>>)>> \o rest
            ELSE rest

parseCommandLine(commandLine) ==
    inlineCommands(commandLine) \o [i \in 1..Len(commandLine) |-> <<commandLine[i]>>]

getBaseCommand(command) == IF command = <<>> THEN "" ELSE command[1].base

matchesPattern(command, pattern) ==
    IF pattern.kind = "re"
    THEN \E i \in DOMAIN command :
            command[i].base = pattern.word \/ command[i].sub = pattern.word
    ELSE getBaseCommand(command) = pattern.word

\* the rule loop without the break on a deny
RECURSIVE checkRulesNoBreak(_, _, _, _, _)
checkRulesNoBreak(command, allowlist, checkFullCommand, i, acc) ==
    IF i > Len(allowlist) THEN acc
    ELSE LET value == allowlist[i].value
             pattern == allowlist[i].pat
             next(a) == checkRulesNoBreak(command, allowlist, checkFullCommand, i + 1, a)
         IN IF value.isObject /\ checkFullCommand /\ ~value.mcl THEN next(acc)
            ELSE IF value.isObject /\ ~checkFullCommand /\ value.mcl THEN next(acc)
            ELSE IF ~matchesPattern(command, pattern) THEN next(acc)
            ELSE IF value.isNull THEN next([acc EXCEPT !.matchedRule = pattern])
            ELSE next([approved |-> IF value.approve THEN "true" ELSE "false",
                       matchedRule |-> pattern])

RECURSIVE checkRules(_, _, _, _, _)
checkRules(command, allowlist, checkFullCommand, i, acc) ==
    IF i > Len(allowlist) THEN acc
    ELSE LET value == allowlist[i].value
             pattern == allowlist[i].pat
             next(a) == checkRules(command, allowlist, checkFullCommand, i + 1, a)
         IN IF value.isObject /\ checkFullCommand /\ ~value.mcl THEN next(acc)
            ELSE IF value.isObject /\ ~checkFullCommand /\ value.mcl THEN next(acc)
            ELSE IF ~matchesPattern(command, pattern) THEN next(acc)
            ELSE IF value.isNull THEN next([acc EXCEPT !.matchedRule = pattern])
            ELSE IF value.approve
                 THEN next([approved |-> "true", matchedRule |-> pattern])
                 ELSE [approved |-> "false", matchedRule |-> pattern]

checkSingleCommand(command, allowlist, checkFullCommand) ==
    LET r == checkRules(command, allowlist, checkFullCommand, 1,
                        [approved |-> "null", matchedRule |-> NoRule])
    IN [approved |-> r.approved = "true", denied |-> r.approved = "false",
        matchedRule |-> r.matchedRule]

checkCommand(commandLine, allowlist) ==
    LET subCommands == parseCommandLine(commandLine)
        fullLineCheck == checkSingleCommand(commandLine, allowlist, TRUE)
        subCommandChecks == [i \in 1..Len(subCommands) |->
                                checkSingleCommand(subCommands[i], allowlist, FALSE)]
        anyDenied == fullLineCheck.denied
                     \/ \E i \in DOMAIN subCommandChecks : subCommandChecks[i].denied
        allSubCommandsApproved ==
            Len(subCommandChecks) > 0
            /\ \A i \in DOMAIN subCommandChecks : subCommandChecks[i].approved
        fullLineApproved == fullLineCheck.approved
        approved == ~anyDenied /\ (allSubCommandsApproved \/ fullLineApproved)
        firstDenied == CHOOSE i \in DOMAIN subCommandChecks :
                          /\ subCommandChecks[i].denied
                          /\ \A j \in 1..(i - 1) : ~subCommandChecks[j].denied
        deniedCheck == IF fullLineCheck.denied THEN fullLineCheck
                       ELSE subCommandChecks[firstDenied]
        reason == IF anyDenied
                  THEN [kind |-> "denied", rule |-> deniedCheck.matchedRule]
                  ELSE IF approved
                       THEN IF fullLineApproved
                            THEN [kind |-> "fullLine", rule |-> fullLineCheck.matchedRule]
                            ELSE [kind |-> "allSubCommands", rule |-> NoRule]
                       ELSE [kind |-> "noRule", rule |-> NoRule]
    IN [approved |-> approved, reason |-> reason, subCommands |-> subCommands]

NoResult == [approved |-> FALSE, reason |-> [kind |-> "unchecked", rule |-> NoRule],
             subCommands |-> <<>>]

(***************************************************************************)
(* Resumable tools of the shell plugin (ShellPlugin.executeShell and       *)
(* ShellPlugin.sendTextToPtty).  A handler invocation is described by the  *)
(* effect it has: it runs a command ("execute"), it routes an              *)
(* approval_request and then returns RUNNING ("requestApproval"), or it    *)
(* just returns a status ("return").                                       *)
(***************************************************************************)
ToolExecutionStatus ==
    [IDLE |-> "idle", RUNNING |-> "running", SUCCESS |-> "success", FAILURE |-> "failure"]

NoSession == 0
NoCall == 0
NoReason == [kind |-> "-", rule |-> NoRule]
\* context.state || {}
EmptyState == [phase |-> "", data |-> <<>>]
\* context.externalData || {}
NoExternalData == [kind |-> "none", value |-> "-"]
Choices == {"APPROVE", "REJECT", "MODIFY"}

approvalReceived(externalData) == externalData.kind = "approval"
answerReceived(externalData) == externalData.kind = "answer"

Execute(command) ==
    [kind |-> "execute", status |-> "-", state |-> EmptyState, payload |-> command,
     error |-> "-", reason |-> NoReason]
Return(status, state, error, reason) ==
    [kind |-> "return", status |-> status, state |-> state, payload |-> <<>>,
     error |-> error, reason |-> reason]
RequestApproval(state, reason) ==
    [kind |-> "requestApproval", status |-> ToolExecutionStatus.RUNNING, state |-> state,
     payload |-> <<>>, error |-> "-", reason |-> reason]

\* ApprovalModel.list().find(a => a.toolCallId === ... && a.sessionId === ...
\*                               && (a.status === 'approve' || a.status === 'modify'))
\* a lookup that takes any record of the tool call for an approval
existingApprovalOfAnyStatus(context) ==
    IF \E i \in DOMAIN context.approvals :
          /\ context.approvals[i].toolCallId = context.toolCallId
          /\ context.approvals[i].sessionId = context.sessionId
    THEN "approve" ELSE "none"

existingApproval(context) ==
    LET hits == {i \in DOMAIN context.approvals :
                    /\ context.approvals[i].toolCallId = context.toolCallId
                    /\ context.approvals[i].sessionId = context.sessionId
                    /\ context.approvals[i].status \in {"approve", "modify"}}
    IN IF hits = {} THEN "none"
       ELSE context.approvals[CHOOSE i \in hits : \A j \in hits : i <= j].status

\* choice === 'APPROVE'
choiceIsApproveOrAnything(externalData) == TRUE

choiceIsApprove(externalData) == externalData.value = "APPROVE"

executeShell(command, context) ==
    LET state == context.state
        phase == IF state.phase = "" THEN "initial" ELSE state.phase
        externalData == context.externalData
        check == checkCommand(command, context.allowlist)
    IN IF phase = "initial"
       THEN IF check.approved \/ context.sessionId = NoSession
            THEN Execute(command)
            ELSE IF context.unattended
            THEN Return(ToolExecutionStatus.FAILURE, EmptyState, "unattended", check.reason)
            ELSE IF context.toolCallId # NoCall /\ existingApproval(context) = "modify"
            THEN Return(ToolExecutionStatus.FAILURE, EmptyState, "rejected", NoReason)
            ELSE IF context.toolCallId # NoCall /\ existingApproval(context) = "approve"
            THEN Execute(command)
            ELSE RequestApproval([phase |-> "awaiting_approval", data |-> command],
                                 check.reason)
       ELSE IF phase = "awaiting_approval"
       THEN IF ~approvalReceived(externalData)
            THEN Return(ToolExecutionStatus.RUNNING,
                        [phase |-> "awaiting_approval", data |-> state.data], "-", NoReason)
            ELSE IF choiceIsApprove(externalData)
            THEN Execute(state.data)
            ELSE Return(ToolExecutionStatus.FAILURE, EmptyState, "rejected", NoReason)
       ELSE Return(ToolExecutionStatus.FAILURE, EmptyState, "unknownPhase", NoReason)

\* ShellPlugin._writeToPtty: the write happens only if the PTY session exists
writeToPtty(ptyExists, text) ==
    IF ptyExists THEN Execute(text)
    ELSE Return(ToolExecutionStatus.FAILURE, EmptyState, "ptyNotFound", NoReason)

sendTextToPtty(text, context) ==
    LET state == context.state
        phase == IF state.phase = "" THEN "initial" ELSE state.phase
        externalData == context.externalData
        check == checkCommand(text, context.allowlist)
    IN IF phase = "initial"
       THEN IF check.approved \/ context.sessionId = NoSession
            THEN writeToPtty(context.ptyExists, text)
            ELSE IF context.unattended
            THEN Return(ToolExecutionStatus.FAILURE, EmptyState, "unattended", check.reason)
            ELSE IF context.toolCallId # NoCall /\ existingApproval(context) = "modify"
            THEN Return(ToolExecutionStatus.FAILURE, EmptyState, "rejected", NoReason)
            ELSE IF context.toolCallId # NoCall /\ existingApproval(context) = "approve"
            THEN writeToPtty(context.ptyExists, text)
            ELSE RequestApproval([phase |-> "awaiting_approval", data |-> text],
                                 check.reason)
       ELSE IF phase = "awaiting_approval"
       THEN IF ~approvalReceived(externalData)
            THEN Return(ToolExecutionStatus.RUNNING,
                        [phase |-> "awaiting_approval", data |-> state.data], "-", NoReason)
            ELSE IF choiceIsApprove(externalData)
            THEN writeToPtty(context.ptyExists, state.data)
            ELSE Return(ToolExecutionStatus.FAILURE, EmptyState, "rejected", NoReason)
       ELSE Return(ToolExecutionStatus.FAILURE, EmptyState, "unknownPhase", NoReason)

(***************************************************************************)
(* Specification of the allowlist check: any allowlist, any command line.  *)
(***************************************************************************)
IdleAllow ==
    /\ alInput = [allowlist |-> <<>>, commandLine |-> <<>>, checked |-> TRUE]
    /\ alResult = NoResult

NoOutcome ==
    [in |-> [state |-> EmptyState, ext |-> NoExternalData],
     out |-> [kind |-> "none", status |-> "-", state |-> EmptyState, payload |-> <<>>,
              error |-> "-", reason |-> NoReason]]

IdleShell ==
    /\ shCtx = [tool |-> "-"]
    /\ shState = EmptyState
    /\ shExt = NoExternalData
    /\ shLast = NoOutcome

InitAllow ==
    /\ alInput \in [allowlist : Allowlists, commandLine : CommandLines, checked : {FALSE}]
    /\ alResult = NoResult
    /\ IdleShell
    /\ IdleSys
    /\ IdleUnits

CheckCommand ==
    /\ ~alInput.checked
    /\ alInput' = [alInput EXCEPT !.checked = TRUE]
    /\ alResult' = checkCommand(alInput.commandLine, alInput.allowlist)
    /\ UNCHANGED <<shellVars, sysVars, unitVars>>

NextAllow == CheckCommand

SpecAllow == InitAllow /\ [][NextAllow]_vars

(***************************************************************************)
(* Specification of the shell tools: one tool call of shell__execute or    *)
(* shell__pty__execute, invoked, possibly answered by the human, re-invoked. *)
(***************************************************************************)
ShellTools == {"shell__execute", "shell__pty__execute"}
TheSession == 1
TheCall == 1
RecordedApproval(status) ==
    [toolCallId |-> TheCall, sessionId |-> TheSession, status |-> status]
\* session context, unattended flag and approvals already on record
ShellModes ==
    {[sessionId |-> NoSession, unattended |-> FALSE, approvals |-> <<>>],
     [sessionId |-> NoSession, unattended |-> TRUE, approvals |-> <<>>],
     [sessionId |-> TheSession, unattended |-> TRUE, approvals |-> <<>>],
     [sessionId |-> TheSession, unattended |-> TRUE,
      approvals |-> <<RecordedApproval("approve")>>],
     [sessionId |-> TheSession, unattended |-> FALSE, approvals |-> <<>>],
     [sessionId |-> TheSession, unattended |-> FALSE,
      approvals |-> <<RecordedApproval("pending")>>],
     [sessionId |-> TheSession, unattended |-> FALSE,
      approvals |-> <<RecordedApproval("approve")>>],
     [sessionId |-> TheSession, unattended |-> FALSE,
      approvals |-> <<RecordedApproval("modify")>>]}

\* the PTY named by a shell__pty__execute call may or may not exist
ShellContexts ==
    [tool : {"shell__execute"}, allowlist : Allowlists, commandLine : ShellCommandLines,
     mode : ShellModes, ptyExists : {TRUE}]
    \cup [tool : {"shell__pty__execute"}, allowlist : Allowlists,
          commandLine : ShellCommandLines, mode : ShellModes, ptyExists : BOOLEAN]

\* the context of a handler that never sees the unattended setting
handlerContextAttended(ctx, state, externalData) ==
    [state |-> state, externalData |-> externalData, allowlist |-> ctx.allowlist,
     sessionId |-> ctx.mode.sessionId, toolCallId |-> TheCall,
     unattended |-> FALSE, approvals |-> ctx.mode.approvals,
     ptyExists |-> ctx.ptyExists]

handlerContext(ctx, state, externalData) ==
    [state |-> state, externalData |-> externalData, allowlist |-> ctx.allowlist,
     sessionId |-> ctx.mode.sessionId, toolCallId |-> TheCall,
     unattended |-> ctx.mode.unattended, approvals |-> ctx.mode.approvals,
     ptyExists |-> ctx.ptyExists]

invokeShellTool(ctx, state, externalData) ==
    IF ctx.tool = "shell__execute"
    THEN executeShell(ctx.commandLine, handlerContext(ctx, state, externalData))
    ELSE sendTextToPtty(ctx.commandLine, handlerContext(ctx, state, externalData))

isTerminal(out) ==
    out.kind = "execute" \/ (out.kind = "return" /\ out.status # ToolExecutionStatus.RUNNING)

InitShell ==
    /\ shCtx \in ShellContexts
    /\ shState = EmptyState
    /\ shExt = NoExternalData
    /\ shLast = NoOutcome
    /\ IdleAllow
    /\ IdleSys
    /\ IdleUnits

ShellInvoke ==
    /\ ~isTerminal(shLast.out)
    /\ LET out == invokeShellTool(shCtx, shState, shExt)
       IN /\ shLast' = [in |-> [state |-> shState, ext |-> shExt], out |-> out]
          /\ shState' = IF isTerminal(out) THEN shState ELSE out.state
    /\ UNCHANGED <<shCtx, shExt, allowVars, sysVars, unitVars>>

\* Bridge.handleApprovalResponse stores the human's decision for the tool call
ShellApprovalResponse ==
    /\ shState.phase = "awaiting_approval"
    /\ ~isTerminal(shLast.out)
    /\ shExt = NoExternalData
    /\ \E choice \in Choices : shExt' = [kind |-> "approval", value |-> choice]
    /\ UNCHANGED <<shCtx, shState, shLast, allowVars, sysVars, unitVars>>

NextShell == ShellInvoke \/ ShellApprovalResponse

SpecShell == InitShell /\ [][NextShell]_vars

(***************************************************************************)
(* Sessions and their store (plugins/agent/models/session.mjs,             *)
(* common/yaml-db.mjs).  A session record is its status and its message    *)
(* log.  The host and the child resolve a session id under different       *)
(* directories.                                                            *)
(***************************************************************************)
SessionState ==
    [PENDING |-> "pending", RUNNING |-> "running", SUCCESS |-> "success",
     ERROR |-> "error", PAUSED |-> "paused", STOPPED |-> "stopped"]

sessionFSM ==
    [pause |-> [from |-> {"pending", "running"}, to |-> "paused"],
     resume |-> [from |-> {"paused"}, to |-> "pending"],
     retry |-> [from |-> {"success", "error"}, to |-> "pending"],
     stop |-> [from |-> {"pending", "running", "paused"}, to |-> "stopped"],
     run |-> [from |-> {"stopped"}, to |-> "running"],
     start |-> [from |-> {"pending"}, to |-> "running"],
     complete |-> [from |-> {"running"}, to |-> "success"],
     fail |-> [from |-> {"running"}, to |-> "error"]]

FsmActions == DOMAIN sessionFSM

\* a transition function that accepts every action in every state
fsmTransitionAnyFrom(currentState, action) ==
    [success |-> TRUE, from |-> currentState, to |-> sessionFSM[action].to]

\* FSM.transition(currentState, action)
fsmTransition(currentState, action) ==
    IF currentState \in sessionFSM[action].from
    THEN [success |-> TRUE, from |-> currentState, to |-> sessionFSM[action].to]
    ELSE [success |-> FALSE, from |-> currentState, to |-> currentState]

Procs == {"host", "child"}
isContainerMode(proc) == proc = "child"
sessionsPath(proc) == IF isContainerMode(proc) THEN "./db/sessions" ELSE "agent/sessions"
Dirs == {sessionsPath(proc) : proc \in Procs}

\* no file <id>.yml in the directory
Absent == [status |-> "absent", messages |-> <<>>]
\* the tick holds no session object
NoSessionObject == [status |-> "-", messages |-> <<>>]

\* The child's view of the store: the file, whether the file is newer than the
\* cached object (yaml-db _loadFile), and the object the running tick holds.
Mem ==
    [file |-> files[sessionsPath("child")], stale |-> stale, session |-> session,
     sameObject |-> sameObject, sameMetadata |-> sameMetadata]

\* the object collection.items holds for the session
cached(m) == IF m.sameObject THEN m.session ELSE m.file

\* YamlCollection.loadAll / get: re-read the file into a new object if it is newer
loadAll(m) ==
    IF m.stale
    THEN [m EXCEPT !.stale = FALSE, !.sameObject = FALSE, !.sameMetadata = FALSE]
    ELSE m

\* YamlCollection.set + save of the cached object obj: the file is rewritten; the
\* write makes the file newer than lastReadTs
saveCached(m, obj) ==
    [m EXCEPT !.file = obj,
              !.session = IF m.sameObject THEN obj
                          ELSE IF m.sameMetadata THEN [@ EXCEPT !.status = obj.status]
                          ELSE @,
              !.stale = TRUE]

\* SessionModel.transition in the child
transition(m, action) ==
    LET m1 == loadAll(m)
        r == fsmTransition(cached(m1).status, action)
    IN IF r.success
       THEN [result |-> r, mem |-> saveCached(m1, [cached(m1) EXCEPT !.status = r.to])]
       ELSE [result |-> r, mem |-> m1]

\* SessionModel.transition in the host: the session is looked up under the host's
\* sessions directory
hostTransition(fs, action) ==
    LET rec == fs[sessionsPath("host")]
        r == fsmTransition(rec.status, action)
    IN IF rec = Absent
       THEN [result |-> [success |-> FALSE, from |-> "notFound", to |-> "notFound"],
             files |-> fs]
       ELSE IF r.success
       THEN [result |-> r,
             files |-> [fs EXCEPT ![sessionsPath("host")] = [rec EXCEPT !.status = r.to]]]
       ELSE [result |-> r, files |-> fs]

\* session.metadata = freshSession.metadata (part of AgentLoop.tick)
reloadMetadata(m) ==
    LET m1 == loadAll(m)
    IN [m1 EXCEPT !.session.status = cached(m1).status, !.sameMetadata = TRUE]

\* session.spec.messages.push(message) on the tick's object
push(m, message) == [m EXCEPT !.session.messages = Append(@, message)]

\* SessionModel.save(id, session) with the tick's object
saveSession(m) ==
    [m EXCEPT !.file = m.session, !.sameObject = TRUE, !.sameMetadata = TRUE,
              !.stale = TRUE]

\* the tick returns: its session object is dropped
dropSession(m) ==
    [m EXCEPT !.session = NoSessionObject, !.sameObject = FALSE, !.sameMetadata = FALSE]

(***************************************************************************)
(* Messages, tool calls and provider completions.                          *)
(***************************************************************************)
CallIds == 1..(MaxProviderCalls * MaxCallsPerMessage)

LsCommand == <<[base |-> "ls", sub |-> NoSub]>>
RmCommand == <<[base |-> "rm", sub |-> NoSub]>>
\* the allowlist in force in the session: ls is approved, nothing else is listed
SessionAllowlist ==
    <<[pat |-> [kind |-> "lit", word |-> "ls"],
       value |-> [isObject |-> FALSE, approve |-> TRUE, mcl |-> FALSE, isNull |-> FALSE]]>>

\* what the model may ask for: a listed command, an unlisted one, a question, and a
\* tool that is not offered to it (human__approvals__list is humanOnly)
ToolRequests ==
    {[name |-> "shell__execute", args |-> LsCommand],
     [name |-> "shell__execute", args |-> RmCommand],
     [name |-> "human__ask", args |-> <<>>],
     [name |-> "human__approvals__list", args |-> <<>>]}

\* metadata.humanOnly of the tool definition, globals.humanOnlyTools
humanOnly(toolName) == toolName = "human__approvals__list"

\* metadata.requiresHostExecution of the tool definition
requiresHostExecution(toolName) == toolName = "human__ask"

Answer == "foo.txt"

UserMessage ==
    [role |-> "user", tool_calls |-> <<>>, tool_call_id |-> NoCall,
     content |-> <<"Ping">>, finish_reason |-> "-"]
ToolMessage(id, content) ==
    [role |-> "tool", tool_calls |-> <<>>, tool_call_id |-> id, content |-> content,
     finish_reason |-> "-"]

\* one choice of a chat completion
Choice(content, requests, finish_reason) ==
    [content |-> content, tool_calls |-> requests, finish_reason |-> finish_reason]

RequestLists == UNION {[1..n -> ToolRequests] : n \in 1..MaxCallsPerMessage}

\* provider responses: a final answer (finish_reason stop or length), a message with
\* tool calls, or content and tool calls split over two choices
ProviderResponses ==
    {<<Choice(<<"Pong">>, <<>>, fr)>> : fr \in {"stop", "length"}}
    \cup {<<Choice(<<>>, requests, "tool_calls")>> : requests \in RequestLists}
    \cup {<<Choice(<<"Pong">>, <<>>, "stop"),
             Choice(<<>>, <<request>>, "tool_calls")>> : request \in ToolRequests}

RECURSIVE mergedContent(_)
mergedContent(choices) ==
    IF choices = <<>> THEN <<>>
    ELSE Head(choices).content \o mergedContent(Tail(choices))

RECURSIVE mergedToolCalls(_)
mergedToolCalls(choices) ==
    IF choices = <<>> THEN <<>>
    ELSE Head(choices).tool_calls \o mergedToolCalls(Tail(choices))

\* lines 330-347 of AgentLoop.tick: the choices merged into one assistant message;
\* the provider numbers the tool calls, base is the number of ids already used
mergeChoices(choices, base) ==
    LET requests == mergedToolCalls(choices)
    IN [role |-> "assistant",
        tool_calls |-> [j \in 1..Len(requests) |->
                          [id |-> base + j, name |-> requests[j].name,
                           args |-> requests[j].args]],
        tool_call_id |-> NoCall,
        content |-> mergedContent(choices),
        finish_reason |-> IF \E i \in DOMAIN choices : choices[i].finish_reason = "tool_calls"
                          THEN "tool_calls" ELSE "stop"]

\* line 459 of AgentLoop.tick reads `finishReason`; the variable is declared with
\* `let` at line 331 inside the block that closes at line 352, so the name does not
\* resolve at line 459 and the read throws a ReferenceError
finishReasonAtLine459(combinedMessage) == "ReferenceError"

(***************************************************************************)
(* globals.toolCallStates: the entry of a tool call.                       *)
(***************************************************************************)
NoEntry == [status |-> "none", state |-> EmptyState, externalData |-> NoExternalData]
NewEntry ==
    [status |-> ToolExecutionStatus.IDLE, state |-> EmptyState,
     externalData |-> NoExternalData]
AwaitingApproval == [kind |-> "awaitingApproval", value |-> "-"]
AwaitingAnswer == [kind |-> "awaitingAnswer", value |-> "-"]

\* nothing returned RUNNING yet, nothing delivered
NotReturned == [phase |-> "none", data |-> <<>>]
NoHistory == [returned |-> NotReturned, injected |-> NoExternalData]
Returned(state) == [returned |-> state, injected |-> NoExternalData]

\* toolCallStates.get(id) || new entry
getOrCreate(states, id) == IF states[id] = NoEntry THEN NewEntry ELSE states[id]

\* context handed to a shell handler in the child by Bridge.handleToolCall
childContext(entry, id) ==
    [state |-> entry.state, externalData |-> entry.externalData,
     allowlist |-> SessionAllowlist, sessionId |-> TheSession, toolCallId |-> id,
     unattended |-> FALSE, approvals |-> <<>>, ptyExists |-> TRUE]

\* HumanPlugin.listApprovals in the container: no approval is on record there
listApprovals ==
    Return(ToolExecutionStatus.SUCCESS, EmptyState, "No pending approvals.", NoReason)

\* Bridge.executeToolLocally in the child: handler = globals.dslRegistry.get(toolName),
\* then handler(args, context)
invokeHandler(call, context) ==
    IF call.name = "shell__execute" THEN executeShell(call.args, context)
    ELSE listApprovals

\* HumanPlugin.askHuman on the host, up to its routing of the question_request
askHuman(entry) ==
    IF entry.state.phase = "awaiting_answer"
    THEN IF ~answerReceived(entry.externalData)
         THEN [kind |-> "return", status |-> ToolExecutionStatus.RUNNING,
               state |-> [phase |-> "awaiting_answer", data |-> entry.state.data],
               result |-> "-"]
         ELSE [kind |-> "return", status |-> ToolExecutionStatus.SUCCESS,
               state |-> EmptyState, result |-> entry.externalData.value]
    ELSE [kind |-> "requestQuestion", status |-> ToolExecutionStatus.RUNNING,
          state |-> [phase |-> "awaiting_answer", data |-> <<>>], result |-> "-"]

(***************************************************************************)
(* The orchestration: one session, its child process (Agent Loop and       *)
(* container side of the Bridge), the host (host side of the Bridge, the   *)
(* human's commands), the provider, signals and timers.                    *)
(***************************************************************************)
Event(type, what, id, state, externalData) ==
    [type |-> type, what |-> what, id |-> id, state |-> state, ext |-> externalData]
Did(type, what) == Event(type, what, NoCall, EmptyState, NoExternalData)

\* no lifecycle command is in flight on the host
NoHostCall == [action |-> "-", loaded |-> Absent, statuses |-> {}]
\* the lifecycle commands the operator issues: `pause <id>` and `resume <id>`
LifecycleActions == {"pause", "resume"}

\* the session's record in the workspace is watched while a command is in flight
Observe ==
    hostCall' = IF hostCall = NoHostCall THEN hostCall
                ELSE [hostCall EXCEPT
                        !.statuses = @ \cup {files'[sessionsPath("child")].status}]

\* the child is inside a synchronous stretch of the tick: nothing else runs
Busy == pc \in {"tick", "loop"}

InitSys ==
    /\ files \in {[d \in Dirs |->
                     IF d = sessionsPath("child")
                     THEN [status |-> SessionState.PENDING, messages |-> messages]
                     ELSE Absent] : messages \in {<<>>, <<UserMessage>>}}
    /\ stale = TRUE
    /\ pc = "boot"
    /\ isRunning = FALSE
    /\ session = NoSessionObject
    /\ sameObject = FALSE
    /\ sameMetadata = FALSE
    /\ toolCalls = <<>>
    /\ ti = 1
    /\ attemptedPrompts = {}
    /\ promptKey = 0
    /\ toolCallStates = [proc \in Procs |-> [id \in CallIds |-> NoEntry]]
    /\ messageCounter = 0
    /\ pendingMessage = 0
    /\ toHost = <<>>
    /\ toContainer = <<>>
    /\ callHistory = [id \in CallIds |-> NoHistory]
    /\ approvals = <<>>
    /\ questions = <<>>
    /\ humanApprovalsCounter = 0
    /\ providerCalls = 0
    /\ signals = 0
    /\ timeouts = 0
    /\ hostCall = NoHostCall
    /\ ev = Did("init", "-")

Init == InitSys /\ IdleAllow /\ IdleShell /\ IdleUnits

SetMem(mem) ==
    \E m \in {mem} :
      /\ files' = [files EXCEPT ![sessionsPath("child")] = m.file]
      /\ stale' = m.stale
      /\ session' = m.session
      /\ sameObject' = m.sameObject
      /\ sameMetadata' = m.sameMetadata

\* AgentLoop.start up to the first tick
ChildStart ==
    /\ pc = "boot"
    /\ isRunning' = TRUE
    /\ SetMem(transition(Mem, "start").mem)
    /\ pc' = "tick"
    /\ ev' = Did("start", "-")
    /\ UNCHANGED <<toolCalls, ti, attemptedPrompts, promptKey, bridgeVars, humanVars, envVars,
                   allowVars, shellVars, unitVars>>
    /\ Observe

\* while (this.isRunning) ends the loop
LoopExit ==
    /\ pc = "idle"
    /\ ~isRunning
    /\ pc' = "exited"
    /\ ev' = Did("exit", "-")
    /\ UNCHANGED <<storeVars, isRunning, session, sameObject, sameMetadata, toolCalls, ti,
                   attemptedPrompts, promptKey, bridgeVars, humanVars, envVars, allowVars, shellVars, unitVars>>
    /\ Observe

\* a tick that calls the provider without looking at the attempted prompts
tickEntryRetries(m0, running, attempted) ==
    LET m1 == loadAll(m0)
        rec == cached(m1)
        held == [m1 EXCEPT !.session = rec, !.sameObject = TRUE, !.sameMetadata = TRUE]
        messages == rec.messages
        lastMessage == messages[Len(messages)]
        done(what, m, run) ==
            [what |-> what, mem |-> m, pc |-> "idle", isRunning |-> run,
             toolCalls |-> <<>>]
    IN IF rec = Absent
       THEN done("missing", transition(m1, "stop").mem, FALSE)
       ELSE IF rec.status = SessionState.PAUSED THEN done("paused", m1, running)
       ELSE IF rec.status = SessionState.PENDING
       THEN done("started", transition(m1, "start").mem, running)
       ELSE IF rec.status \in {SessionState.STOPPED, SessionState.SUCCESS,
                               SessionState.ERROR}
       THEN done("ended", m1, FALSE)
       ELSE IF messages = <<>> THEN done("empty", m1, running)
       ELSE IF lastMessage.role = "assistant" /\ Len(lastMessage.tool_calls) > 0
       THEN [what |-> "resume", mem |-> held, pc |-> "loop", isRunning |-> running,
             toolCalls |-> lastMessage.tool_calls]
       ELSE IF lastMessage.role \in {"user", "tool"}
       THEN [what |-> "provider", mem |-> held, pc |-> "awaitAI",
             isRunning |-> running, toolCalls |-> <<>>]
       ELSE done("nothing", m1, running)

\* AgentLoop.tick from its entry to its first await or its return
tickEntry(m0, running, attempted) ==
    LET m1 == loadAll(m0)
        rec == cached(m1)
        held == [m1 EXCEPT !.session = rec, !.sameObject = TRUE, !.sameMetadata = TRUE]
        messages == rec.messages
        lastMessage == messages[Len(messages)]
        done(what, m, run) ==
            [what |-> what, mem |-> m, pc |-> "idle", isRunning |-> run,
             toolCalls |-> <<>>]
    IN IF rec = Absent
       THEN done("missing", transition(m1, "stop").mem, FALSE)
       ELSE IF rec.status = SessionState.PAUSED THEN done("paused", m1, running)
       ELSE IF rec.status = SessionState.PENDING
       THEN done("started", transition(m1, "start").mem, running)
       ELSE IF rec.status \in {SessionState.STOPPED, SessionState.SUCCESS,
                               SessionState.ERROR}
       THEN done("ended", m1, FALSE)
       ELSE IF messages = <<>> THEN done("empty", m1, running)
       ELSE IF lastMessage.role = "assistant" /\ Len(lastMessage.tool_calls) > 0
       THEN [what |-> "resume", mem |-> held, pc |-> "loop", isRunning |-> running,
             toolCalls |-> lastMessage.tool_calls]
       ELSE IF lastMessage.role \in {"user", "tool"}
       THEN IF Len(messages) \in attempted THEN done("skipped", m1, running)
            ELSE [what |-> "provider", mem |-> held, pc |-> "awaitAI",
                  isRunning |-> running, toolCalls |-> <<>>]
       ELSE done("nothing", m1, running)

TickStart ==
    /\ pc = "tick" \/ (pc = "idle" /\ isRunning)
    /\ \E next \in {tickEntry(Mem, isRunning, attemptedPrompts)} :
          /\ SetMem(next.mem)
          /\ pc' = next.pc
          /\ isRunning' = next.isRunning
          /\ toolCalls' = next.toolCalls
          /\ ev' = Did("tick", next.what)
          /\ promptKey' = IF next.what = "provider" THEN Len(next.mem.session.messages)
                           ELSE promptKey
    /\ ti' = 1
    /\ UNCHANGED <<attemptedPrompts, bridgeVars, humanVars, envVars, allowVars, shellVars, unitVars>>
    /\ Observe

\* the provider's completion arrives: lines 307-361 and 451-464 of AgentLoop.tick
ProviderReturn ==
    /\ pc = "awaitAI"
    /\ providerCalls < MaxProviderCalls
    /\ \E response \in ProviderResponses :
         LET combinedMessage == mergeChoices(response, providerCalls * MaxCallsPerMessage)
             m1 == saveSession(push(Mem, combinedMessage))
             finishReason == finishReasonAtLine459(combinedMessage)
             complete == finishReason \in {"stop", "end_turn"}
         IN IF Len(combinedMessage.tool_calls) > 0
            THEN /\ SetMem(m1)
                 /\ toolCalls' = combinedMessage.tool_calls
                 /\ pc' = "loop"
                 /\ isRunning' = isRunning
                 /\ ev' = Did("response", "tools")
            ELSE /\ SetMem(dropSession(IF complete THEN transition(m1, "complete").mem
                                       ELSE m1))
                 /\ toolCalls' = <<>>
                 /\ pc' = "idle"
                 /\ isRunning' = (isRunning /\ ~complete)
                 /\ ev' = Did("response", "final")
    /\ attemptedPrompts' = {}
    /\ promptKey' = 0
    /\ ti' = 1
    /\ providerCalls' = providerCalls + 1
    /\ UNCHANGED <<bridgeVars, humanVars, signals, timeouts, allowVars, shellVars, unitVars>>
    /\ Observe

\* the provider call throws: the prompt is marked as attempted, the tick throws
ProviderFail ==
    /\ pc = "awaitAI"
    /\ attemptedPrompts' = attemptedPrompts \cup {promptKey}
    /\ promptKey' = 0
    /\ SetMem(dropSession(Mem))
    /\ pc' = "idle"
    /\ ev' = Did("response", "error")
    /\ UNCHANGED <<isRunning, toolCalls, ti, bridgeVars, humanVars, envVars, allowVars,
                   shellVars, unitVars>>
    /\ Observe

\* a line on the socket; a request or a response carries a messageId, a message the
\* host pushes to the container carries none
Line(type, messageId, toolCallId, toolName, status, value) ==
    [type |-> type, messageId |-> messageId, toolCallId |-> toolCallId,
     toolName |-> toolName, status |-> status, value |-> value]
NoMessage == 0

\* lines 423-437 of AgentLoop.tick: the tool finished, its message joins the log
appendToolResult(m, id, content) == push(reloadMetadata(m), ToolMessage(id, content))

\* lines 364-405 of AgentLoop.tick for the tool call at index ti, up to the await
\* inside Bridge.handleToolCall or, if nothing is awaited, to the end of the iteration
ToolLoopStep ==
    /\ pc = "loop"
    /\ ti <= Len(toolCalls)
    /\ \E out \in {IF requiresHostExecution(toolCalls[ti].name)
                     THEN [kind |-> "sendToHost"]
                     ELSE invokeHandler(toolCalls[ti],
                                        childContext(getOrCreate(toolCallStates["child"],
                                                                 toolCalls[ti].id),
                                                     toolCalls[ti].id))} :
       LET call == toolCalls[ti]
           id == call.id
           entry == getOrCreate(toolCallStates["child"], id)
           sends == out.kind \in {"sendToHost", "requestApproval"}
           messageId == messageCounter + 1
       IN /\ sends => messageCounter < MaxMessages
          /\ messageCounter' = IF sends THEN messageId ELSE messageCounter
          /\ pendingMessage' = IF sends THEN messageId ELSE pendingMessage
          /\ toHost' =
               IF out.kind = "sendToHost"
               THEN Append(toHost, Line("tool_call", messageId, id, call.name, "-", "-"))
               ELSE IF out.kind = "requestApproval"
               THEN Append(toHost,
                           Line("approval_request", messageId, id, call.name, "-", "-"))
               ELSE toHost
          /\ toolCallStates' =
               [toolCallStates EXCEPT !["child"][id] =
                  IF out.kind = "requestApproval"
                  THEN [entry EXCEPT !.externalData = AwaitingApproval]
                  ELSE IF out.kind = "return"
                  THEN IF out.status = ToolExecutionStatus.RUNNING
                       THEN [entry EXCEPT !.state = out.state,
                                          !.status = ToolExecutionStatus.RUNNING]
                       ELSE NoEntry
                  ELSE entry]
          /\ SetMem(IF out.kind = "requestApproval" THEN transition(Mem, "pause").mem
                    ELSE IF out.kind = "return"
                            /\ out.status # ToolExecutionStatus.RUNNING
                    THEN appendToolResult(Mem, id, <<out.error>>)
                    ELSE Mem)
          /\ callHistory' =
               IF out.kind = "sendToHost" THEN callHistory
               ELSE [callHistory EXCEPT ![id] =
                       IF out.kind = "return" /\ out.status = ToolExecutionStatus.RUNNING
                       THEN Returned(out.state)
                       ELSE NoHistory]
          /\ pc' = IF out.kind = "sendToHost" THEN "awaitHost"
                   ELSE IF out.kind = "requestApproval" THEN "awaitAck"
                   ELSE IF out.kind = "execute" THEN "awaitExec"
                   ELSE "loop"
          /\ ti' = IF out.kind = "return" THEN ti + 1 ELSE ti
          /\ ev' = IF out.kind = "sendToHost"
                   THEN Event("forward", call.name, id, EmptyState, NoExternalData)
                   ELSE Event("invoke", out.kind, id, entry.state, entry.externalData)
    /\ UNCHANGED <<isRunning, toolCalls, attemptedPrompts, promptKey, toContainer, humanVars, envVars,
                   allowVars, shellVars, unitVars>>
    /\ Observe

\* ShellPlugin.executeCommand finishes: Bridge.executeToolLocally drops the entry,
\* the tick appends the tool message
ExecDone ==
    /\ pc = "awaitExec"
    /\ \E status \in {ToolExecutionStatus.SUCCESS, ToolExecutionStatus.FAILURE} :
         LET id == toolCalls[ti].id
         IN /\ toolCallStates' = [toolCallStates EXCEPT !["child"][id] = NoEntry]
            /\ SetMem(appendToolResult(Mem, id, <<status>>))
            /\ ev' = Event("executed", status, id, EmptyState, NoExternalData)
    /\ pc' = "loop"
    /\ ti' = ti + 1
    /\ UNCHANGED <<isRunning, toolCalls, attemptedPrompts, promptKey, messageCounter, pendingMessage,
                   toHost, toContainer, callHistory, humanVars, envVars, allowVars,
                   shellVars, unitVars>>
    /\ Observe

\* lines 440-449 of AgentLoop.tick: the loop over the tool calls is over
ToolLoopEnd ==
    /\ pc = "loop"
    /\ ti > Len(toolCalls)
    /\ SetMem(dropSession(saveSession(reloadMetadata(Mem))))
    /\ pc' = "idle"
    /\ toolCalls' = <<>>
    /\ ti' = 1
    /\ ev' = Did("tick", "saved")
    /\ UNCHANGED <<isRunning, attemptedPrompts, promptKey, bridgeVars, humanVars, envVars, allowVars,
                   shellVars, unitVars>>
    /\ Observe

\* a data handler that takes every line with a messageId for the answer
answersAnyPending(line, pending) == line.messageId # NoMessage

\* message.messageId && this.pendingMessages.has(message.messageId)
answersPending(line, pending) ==
    line.messageId # NoMessage /\ line.messageId = pending

\* the data handler of the child's socket: the line answers the pending request
\* (Bridge.connectToHost, pendingMessages); the awaiting call continues
RecvResponse ==
    /\ pc \in {"awaitHost", "awaitAck"}
    /\ toContainer # <<>>
    /\ answersPending(Head(toContainer), pendingMessage)
    /\ LET line == Head(toContainer)
           call == toolCalls[ti]
           entry == toolCallStates["child"][call.id]
           running == pc = "awaitAck" \/ line.status = ToolExecutionStatus.RUNNING
       IN /\ toolCallStates' =
               IF pc = "awaitAck" /\ entry # NoEntry
               THEN [toolCallStates EXCEPT !["child"][call.id] =
                       [entry EXCEPT
                          !.state = executeShell(call.args, childContext(entry, call.id)).state,
                          !.status = ToolExecutionStatus.RUNNING]]
               ELSE toolCallStates
          /\ SetMem(IF running THEN Mem
                    ELSE appendToolResult(Mem, call.id, <<line.value>>))
          /\ callHistory' =
               IF pc = "awaitAck"
               THEN [callHistory EXCEPT ![call.id] =
                       Returned(executeShell(call.args, childContext(entry, call.id)).state)]
               ELSE callHistory
          /\ ev' = Event("returned", line.status, call.id, EmptyState, NoExternalData)
    /\ pendingMessage' = NoMessage
    /\ toContainer' = Tail(toContainer)
    /\ pc' = "loop"
    /\ ti' = ti + 1
    /\ UNCHANGED <<isRunning, toolCalls, attemptedPrompts, promptKey, messageCounter, toHost,
                   humanVars, envVars, allowVars, shellVars, unitVars>>
    /\ Observe

\* a response whose request has timed out: no pending entry, Bridge.route throws on
\* the missing type and the handler logs the error
RecvLate ==
    /\ ~Busy
    /\ toContainer # <<>>
    /\ Head(toContainer).messageId # NoMessage
    /\ ~answersPending(Head(toContainer), pendingMessage)
    /\ toContainer' = Tail(toContainer)
    /\ ev' = Did("dropped", "-")
    /\ UNCHANGED <<storeVars, loopVars, toolCallStates, messageCounter, pendingMessage,
                   toHost, callHistory, humanVars, envVars, allowVars, shellVars, unitVars>>
    /\ Observe

\* Bridge.handleApprovalResponse in the container
RecvApprovalResponse ==
    /\ ~Busy
    /\ toContainer # <<>>
    /\ Head(toContainer).type = "approval_response"
    /\ LET line == Head(toContainer)
           entry == toolCallStates["child"][line.toolCallId]
           externalData == [kind |-> "approval", value |-> line.value]
       IN IF entry = NoEntry
          THEN /\ UNCHANGED <<storeVars, session, sameObject, sameMetadata, toolCallStates,
                               callHistory>>
               /\ ev' = Event("inject", "notFound", line.toolCallId, EmptyState,
                              externalData)
          ELSE /\ toolCallStates' = [toolCallStates EXCEPT
                                       !["child"][line.toolCallId].externalData =
                                          externalData]
               /\ callHistory' = [callHistory EXCEPT ![line.toolCallId].injected =
                                                        externalData]
               /\ SetMem(transition(Mem, "resume").mem)
               /\ ev' = Event("inject", "stored", line.toolCallId, entry.state,
                              externalData)
    /\ toContainer' = Tail(toContainer)
    /\ UNCHANGED <<pc, isRunning, toolCalls, ti, attemptedPrompts, promptKey, messageCounter,
                   pendingMessage, toHost, humanVars, envVars, allowVars, shellVars, unitVars>>
    /\ Observe

\* Bridge.handleQuestionResponse in the container
RecvQuestionResponse ==
    /\ ~Busy
    /\ toContainer # <<>>
    /\ Head(toContainer).type = "question_response"
    /\ LET line == Head(toContainer)
           entry == toolCallStates["child"][line.toolCallId]
           externalData == [kind |-> "answer", value |-> line.value]
           m1 == loadAll(Mem)
           m2 == saveCached(m1, [cached(m1) EXCEPT
                                   !.messages = Append(@, ToolMessage(line.toolCallId,
                                                                      <<line.value>>))])
       IN IF entry = NoEntry
          THEN /\ UNCHANGED <<storeVars, session, sameObject, sameMetadata, toolCallStates,
                               callHistory>>
               /\ ev' = Event("inject", "notFound", line.toolCallId, EmptyState,
                              externalData)
          ELSE /\ toolCallStates' = [toolCallStates EXCEPT
                                       !["child"][line.toolCallId].externalData =
                                          externalData]
               /\ callHistory' = [callHistory EXCEPT ![line.toolCallId].injected =
                                                        externalData]
               /\ SetMem(transition(m2, "resume").mem)
               /\ ev' = Event("inject", "stored", line.toolCallId, entry.state,
                              externalData)
    /\ toContainer' = Tail(toContainer)
    /\ UNCHANGED <<pc, isRunning, toolCalls, ti, attemptedPrompts, promptKey, messageCounter,
                   pendingMessage, toHost, humanVars, envVars, allowVars, shellVars, unitVars>>
    /\ Observe

\* a timer that rejects the caller and leaves the entry in pendingMessages
TimeoutKeepsEntry ==
    /\ pc \in {"awaitHost", "awaitAck"}
    /\ timeouts < MaxTimeouts
    /\ LET id == toolCalls[ti].id
       IN /\ toolCallStates' =
               IF pc = "awaitAck"
               THEN [toolCallStates EXCEPT !["child"][id] = NoEntry]
               ELSE toolCallStates
          /\ callHistory' = IF pc = "awaitAck"
                             THEN [callHistory EXCEPT ![id] = NoHistory]
                             ELSE callHistory
          /\ SetMem(appendToolResult(Mem, id, <<"Socket timeout (5s)">>))
          /\ ev' = Event("returned", "timeout", id, EmptyState, NoExternalData)
    /\ pendingMessage' = pendingMessage
    /\ timeouts' = timeouts + 1
    /\ pc' = "loop"
    /\ ti' = ti + 1
    /\ UNCHANGED <<isRunning, toolCalls, attemptedPrompts, promptKey, messageCounter, toHost,
                   toContainer, humanVars, providerCalls, signals, allowVars, shellVars, unitVars>>
    /\ Observe

\* the 5 s timer of Bridge.sendToHost fires before the response arrives
Timeout ==
    /\ pc \in {"awaitHost", "awaitAck"}
    /\ timeouts < MaxTimeouts
    /\ LET id == toolCalls[ti].id
       IN /\ toolCallStates' =
               IF pc = "awaitAck"
               THEN [toolCallStates EXCEPT !["child"][id] = NoEntry]
               ELSE toolCallStates
          /\ callHistory' = IF pc = "awaitAck"
                             THEN [callHistory EXCEPT ![id] = NoHistory]
                             ELSE callHistory
          /\ SetMem(appendToolResult(Mem, id, <<"Socket timeout (5s)">>))
          /\ ev' = Event("returned", "timeout", id, EmptyState, NoExternalData)
    /\ pendingMessage' = NoMessage
    /\ timeouts' = timeouts + 1
    /\ pc' = "loop"
    /\ ti' = ti + 1
    /\ UNCHANGED <<isRunning, toolCalls, attemptedPrompts, promptKey, messageCounter, toHost,
                   toContainer, humanVars, providerCalls, signals, allowVars, shellVars, unitVars>>
    /\ Observe

\* AgentLoop.handlePause and AgentLoop.handleStop: SIGUSR1 and SIGUSR2
Signal ==
    /\ ~Busy
    /\ pc # "boot"
    /\ signals < MaxSignals
    /\ \E action \in {"pause", "stop"} :
         /\ SetMem(transition(Mem, action).mem)
         /\ isRunning' = (isRunning /\ action # "stop")
         /\ ev' = Did("signal", action)
    /\ signals' = signals + 1
    /\ UNCHANGED <<pc, toolCalls, ti, attemptedPrompts, promptKey, bridgeVars, humanVars,
                   providerCalls, timeouts, allowVars, shellVars, unitVars>>
    /\ Observe

\* the host's socket server receives a tool_call: Bridge.handleToolCall and
\* executeToolLocally on the host, HumanPlugin.askHuman, and for a new question
\* Bridge.handleQuestionRequest on the host; the result is written back
HostToolCall ==
    /\ toHost # <<>>
    /\ Head(toHost).type = "tool_call"
    /\ LET line == Head(toHost)
           id == line.toolCallId
           entry == getOrCreate(toolCallStates["host"], id)
           out == askHuman(entry)
           asked == out.kind = "requestQuestion"
       IN /\ toolCallStates' =
               [toolCallStates EXCEPT !["host"][id] =
                  IF out.status = ToolExecutionStatus.RUNNING
                  THEN [status |-> ToolExecutionStatus.RUNNING, state |-> out.state,
                        externalData |-> IF asked THEN AwaitingAnswer
                                         ELSE entry.externalData]
                  ELSE NoEntry]
          /\ callHistory' = [callHistory EXCEPT ![id] =
                                IF out.status = ToolExecutionStatus.RUNNING
                                THEN Returned(out.state) ELSE NoHistory]
          /\ files' = IF asked THEN hostTransition(files, "pause").files ELSE files
          /\ questions' = IF asked
                          THEN Append(questions, [toolCallId |-> id, status |-> "pending"])
                          ELSE questions
          /\ toContainer' = Append(toContainer,
                                   Line("response", line.messageId, id, line.toolName,
                                        out.status, out.result))
          /\ ev' = Event("hostInvoke", out.status, id, entry.state, entry.externalData)
    /\ toHost' = Tail(toHost)
    /\ UNCHANGED <<stale, loopVars, messageCounter, pendingMessage, approvals,
                   humanApprovalsCounter, envVars, allowVars, shellVars, unitVars>>
    /\ Observe

\* ApprovalModel.create: the record is stored under its id, in place of any record
\* that has that id already
create(store, id, data) ==
    IF id \in DOMAIN store
    THEN [store EXCEPT ![id] = [toolCallId |-> data.toolCallId, status |-> "pending"]]
    ELSE Append(store, [toolCallId |-> data.toolCallId, status |-> "pending"])

\* the host's socket server receives an approval_request: Bridge.handleApprovalRequest
\* on the host
HostApprovalRequest ==
    /\ toHost # <<>>
    /\ Head(toHost).type = "approval_request"
    /\ LET line == Head(toHost)
           id == line.toolCallId
           entry == toolCallStates["host"][id]
       IN /\ toolCallStates' =
               IF entry = NoEntry THEN toolCallStates
               ELSE [toolCallStates EXCEPT !["host"][id].externalData = AwaitingApproval]
          /\ files' = hostTransition(files, "pause").files
          /\ humanApprovalsCounter' = humanApprovalsCounter + 1
          /\ approvals' = create(approvals, humanApprovalsCounter + 1,
                                 [toolCallId |-> id])
          /\ toContainer' = Append(toContainer,
                                   Line("response", line.messageId, id, line.toolName,
                                        "ack", "-"))
          /\ ev' = Event("approvalCreated", "-", id, EmptyState, NoExternalData)
    /\ toHost' = Tail(toHost)
    /\ UNCHANGED <<stale, loopVars, messageCounter, pendingMessage, callHistory,
                   questions, envVars, allowVars, shellVars, unitVars>>
    /\ Observe

\* choice.toLowerCase()
toLowerCase(choice) ==
    IF choice = "APPROVE" THEN "approve"
    ELSE IF choice = "REJECT" THEN "reject"
    ELSE "modify"

\* HumanPlugin.approveRequest on the host, for an approval that is pending
HumanApprove ==
    /\ \E i \in DOMAIN approvals, choice \in Choices :
         LET rec == files[sessionsPath("host")]
         IN /\ approvals[i].status = "pending"
            /\ approvals' = [approvals EXCEPT ![i].status = toLowerCase(choice)]
            /\ toContainer' = Append(toContainer,
                                     Line("approval_response", NoMessage,
                                          approvals[i].toolCallId, "-", "-", choice))
            /\ files' = IF rec.status = SessionState.PAUSED
                        THEN hostTransition(files, "resume").files
                        ELSE IF rec.status = SessionState.STOPPED
                        THEN hostTransition(files, "run").files
                        ELSE files
            /\ ev' = Event("approve", choice, approvals[i].toolCallId, EmptyState,
                           NoExternalData)
    /\ UNCHANGED <<stale, loopVars, toolCallStates, messageCounter, pendingMessage, toHost,
                   callHistory, questions, humanApprovalsCounter, envVars, allowVars,
                   shellVars, unitVars>>
    /\ Observe

\* HumanPlugin.answerQuestion on the host, for a question on record
HumanAnswer ==
    /\ \E i \in DOMAIN questions :
         /\ questions[i].status = "pending"
         /\ questions' = [questions EXCEPT ![i].status = "deleted"]
         /\ toContainer' = Append(toContainer,
                                  Line("question_response", NoMessage,
                                       questions[i].toolCallId, "-", "-", Answer))
         /\ files' = hostTransition(files, "resume").files
         /\ ev' = Event("answer", Answer, questions[i].toolCallId, EmptyState,
                        NoExternalData)
    /\ UNCHANGED <<stale, loopVars, toolCallStates, messageCounter, pendingMessage, toHost,
                   callHistory, approvals, humanApprovalsCounter, envVars, allowVars,
                   shellVars, unitVars>>
    /\ Observe

\* the operator issues a lifecycle command: SessionModel.transition on the host
\* reloads its collection and loads the session
HostTransitionBegin ==
    /\ hostCall = NoHostCall
    /\ \E action \in LifecycleActions :
         /\ hostCall' = [action |-> action, loaded |-> files[sessionsPath("host")],
                          statuses |-> {files[sessionsPath("child")].status}]
         /\ ev' = Did("lifecycle", action)
    /\ UNCHANGED <<storeVars, loopVars, bridgeVars, humanVars, envVars, allowVars,
                   shellVars, unitVars>>

\* SessionModel.transition on the host checks the FSM, writes and returns, and
\* AgentPlugin.transitionSession returns the result; the signal it sends after a
\* successful pause is one of the signals of Signal
HostTransitionEnd ==
    /\ hostCall # NoHostCall
    /\ \E out \in {hostTransition([files EXCEPT ![sessionsPath("host")] = hostCall.loaded],
                                  hostCall.action)} :
         /\ files' = [files EXCEPT ![sessionsPath("host")] =
                                     IF out.result.success
                                     THEN out.files[sessionsPath("host")] ELSE @]
         /\ ev' = Did("lifecycleResult",
                      IF out.result.success THEN "success"
                      ELSE IF out.result.from = "notFound" THEN "notFound"
                      ELSE "invalid")
    /\ hostCall' = NoHostCall
    /\ UNCHANGED <<stale, loopVars, bridgeVars, humanVars, envVars, allowVars, shellVars, unitVars>>

Next ==
    \/ ChildStart
    \/ TickStart
    \/ ProviderReturn
    \/ ProviderFail
    \/ ToolLoopStep
    \/ ExecDone
    \/ ToolLoopEnd
    \/ LoopExit
    \/ RecvResponse
    \/ RecvLate
    \/ RecvApprovalResponse
    \/ RecvQuestionResponse
    \/ Timeout
    \/ Signal
    \/ HostToolCall
    \/ HostApprovalRequest
    \/ HumanApprove
    \/ HumanAnswer
    \/ HostTransitionBegin
    \/ HostTransitionEnd

Spec == Init /\ [][Next]_vars

(***************************************************************************)
(* Specification of the session record in the collection of each process:  *)
(* a record in any status (or no record), SessionModel.transition with any *)
(* action, any number of calls one after another, and the chat command of  *)
(* the host.                                                               *)
(***************************************************************************)
MaxChat == 1
Statuses == {SessionState[k] : k \in DOMAIN SessionState}

InitTransition ==
    /\ files \in [Dirs -> {[status |-> status, messages |-> <<>>] : status \in Statuses}
                          \cup {Absent}]
    /\ stale \in BOOLEAN
    /\ pc = "off"
    /\ isRunning = FALSE
    /\ session = NoSessionObject
    /\ sameObject = FALSE
    /\ sameMetadata = FALSE
    /\ toolCalls = <<>>
    /\ ti = 1
    /\ attemptedPrompts = {}
    /\ promptKey = 0
    /\ toolCallStates = <<>>
    /\ messageCounter = 0
    /\ pendingMessage = 0
    /\ toHost = <<>>
    /\ toContainer = <<>>
    /\ callHistory = <<>>
    /\ approvals = <<>>
    /\ questions = <<>>
    /\ humanApprovalsCounter = 0
    /\ providerCalls = 0
    /\ signals = 0
    /\ timeouts = 0
    /\ hostCall = NoHostCall
    /\ ev = Did("init", "-")
    /\ IdleAllow
    /\ IdleShell
    /\ IdleUnits

\* the call SessionModel.transition(id, action) made in process proc on a record in
\* status from, and what it returned
TransitionCalled(proc, action, from, result) ==
    Event("transition", IF result.success THEN "success" ELSE "failure", NoCall,
          [phase |-> action, data |-> <<from>>], [kind |-> proc, value |-> "-"])

TransitionInChild ==
    /\ \E action \in FsmActions :
         \E r \in {transition(Mem, action)} :
            /\ SetMem(r.mem)
            /\ ev' = TransitionCalled("child", action, files[sessionsPath("child")].status,
                                      r.result)
    /\ UNCHANGED <<pc, isRunning, toolCalls, ti, attemptedPrompts, promptKey, bridgeVars, humanVars,
                   envVars, lifecycleVars, allowVars, shellVars, unitVars>>

TransitionOnHost ==
    /\ \E action \in FsmActions :
         \E r \in {hostTransition(files, action)} :
            /\ files' = r.files
            /\ ev' = TransitionCalled("host", action, files[sessionsPath("host")].status,
                                      r.result)
    /\ UNCHANGED <<stale, loopVars, bridgeVars, humanVars, envVars, lifecycleVars,
                   allowVars, shellVars, unitVars>>

\* the action by which SessionTools.chat revives a session that has ended
reviveAction(status) == IF status = SessionState.STOPPED THEN "run" ELSE "retry"

\* SessionTools.chat on the host: the user message joins the log of the session
\* the host has on record and is saved; a session that has ended is revived
HostChat ==
    /\ LET host == sessionsPath("host")
           rec == files[host]
           added == [files EXCEPT ![host].messages = Append(@, UserMessage)]
       IN IF rec = Absent
          THEN /\ files' = files
               /\ ev' = Did("chat", "notFound")
          ELSE /\ Len(rec.messages) < MaxChat
               /\ files' = IF rec.status \in {SessionState.SUCCESS, SessionState.ERROR,
                                               SessionState.STOPPED}
                            THEN hostTransition(added, reviveAction(rec.status)).files
                            ELSE added
               /\ ev' = Did("chat", "added")
    /\ UNCHANGED <<stale, loopVars, bridgeVars, humanVars, envVars, lifecycleVars,
                   allowVars, shellVars, unitVars>>

NextTransition == TransitionInChild \/ TransitionOnHost \/ HostChat

SpecTransition == InitTransition /\ [][NextTransition]_vars

(***************************************************************************)
(* Specification of the approval store on the host: the host process has   *)
(* just started, db/approvals holds the records its earlier runs left      *)
(* there, approval requests arrive from the child and the human answers.   *)
(***************************************************************************)
MaxOldApprovals == 2
MaxRequests == 2
ApprovalStatuses == {"pending", "approve", "reject", "modify"}
ApprovalRecords == {[toolCallId |-> id, status |-> status] :
                      id \in CallIds, status \in ApprovalStatuses}
ApprovalRequests == {Line("approval_request", id, id, "shell__execute", "-", "-") :
                       id \in CallIds}

InitApproval ==
    /\ files = [d \in Dirs |-> IF d = sessionsPath("child")
                               THEN [status |-> SessionState.PAUSED, messages |-> <<>>]
                               ELSE Absent]
    /\ stale = FALSE
    /\ pc = "off"
    /\ isRunning = FALSE
    /\ session = NoSessionObject
    /\ sameObject = FALSE
    /\ sameMetadata = FALSE
    /\ toolCalls = <<>>
    /\ ti = 1
    /\ attemptedPrompts = {}
    /\ promptKey = 0
    /\ toolCallStates = [proc \in Procs |-> [id \in CallIds |-> NoEntry]]
    /\ messageCounter = 0
    /\ pendingMessage = 0
    /\ toHost \in UNION {[1..n -> ApprovalRequests] : n \in 1..MaxRequests}
    /\ toContainer = <<>>
    /\ callHistory = [id \in CallIds |-> NoHistory]
    /\ approvals \in UNION {[1..n -> ApprovalRecords] : n \in 0..MaxOldApprovals}
    /\ questions = <<>>
    /\ humanApprovalsCounter = 0
    /\ providerCalls = 0
    /\ signals = 0
    /\ timeouts = 0
    /\ hostCall = NoHostCall
    /\ ev = Did("init", "-")
    /\ IdleAllow
    /\ IdleShell
    /\ IdleUnits

\* HumanPlugin.approveRequest on the host, for an approval that is not pending: the
\* command fails with "already <status>"
HumanApproveResolved ==
    /\ \E i \in DOMAIN approvals, choice \in Choices :
         /\ approvals[i].status # "pending"
         /\ ev' = Event("approveRejected", choice, approvals[i].toolCallId, EmptyState,
                        NoExternalData)
    /\ UNCHANGED <<storeVars, loopVars, bridgeVars, humanVars, envVars, lifecycleVars,
                   allowVars, shellVars, unitVars>>

NextApproval == HostApprovalRequest \/ HumanApprove \/ HumanApproveResolved

SpecApproval == InitApproval /\ [][NextApproval]_vars

(***************************************************************************)
(* Specification of command resolution (Bridge.resolveCommand): a tool     *)
(* catalog, and an argv as Utils.parseDSL returns it.  A tool name is the  *)
(* sequence of the words that "__" joins; a tool's alias function is the   *)
(* first word it recognises and returns the tool's name with named args.   *)
(***************************************************************************)
MaxPlugins == 2
MaxTools == 2
MaxArgv == 3
ArgvWords == {"a", "b", "k"}
ToolNames == {<<"a">>, <<"a", "b">>, <<"a", "b", "a">>, <<"k">>}
NoAlias == "-"
AliasWords == {"k"}
CatalogTools == [name : ToolNames, alias : AliasWords \cup {NoAlias}]
Plugins == UNION {[1..n -> CatalogTools] : n \in 1..MaxTools}
Catalogs == UNION {[1..n -> Plugins] : n \in 1..MaxPlugins}
Argvs == UNION {[1..n -> ArgvWords] : n \in 1..MaxArgv}
NamedArgs == <<"named">>
NoResolution == [cmd |-> <<>>, args |-> <<>>, aliasFound |-> FALSE, handler |-> FALSE]

\* globals.dslRegistry.has(cmd): every tool of a registered plugin has its handler
dslRegistryHas(catalog, cmd) ==
    \E p \in DOMAIN catalog : \E t \in DOMAIN catalog[p] : catalog[p][t].name = cmd

\* tool.metadata.alias(allParts) returns an object with a name
aliasMatches(tool, allParts) == tool.alias # NoAlias /\ allParts[1] = tool.alias

\* the inner loop of step 1: the index of the first tool of the plugin whose alias
\* matches, 0 if there is none
firstAlias(plugin, allParts) ==
    LET hits == {t \in DOMAIN plugin : aliasMatches(plugin[t], allParts)}
    IN IF hits = {} THEN 0 ELSE CHOOSE t \in hits : \A u \in hits : t <= u

\* step 1: the loop over the plugins, from plugin p on
RECURSIVE tryAliases(_, _, _, _)
tryAliases(catalog, p, cmd, allParts) ==
    IF p > Len(catalog)
    THEN [cmd |-> cmd, args |-> Tail(allParts), aliasFound |-> FALSE]
    ELSE LET t == firstAlias(catalog[p], allParts)
         IN IF t # 0
            THEN [cmd |-> <<>> \o catalog[p][t].name, args |-> NamedArgs,
                  aliasFound |-> TRUE]
            ELSE IF dslRegistryHas(catalog, cmd)
            THEN [cmd |-> cmd, args |-> Tail(allParts), aliasFound |-> FALSE]
            ELSE tryAliases(catalog, p + 1, cmd, allParts)

\* step 2: the while loop of the underscore fallback
RECURSIVE underscoreFallback(_, _, _, _, _)
underscoreFallback(catalog, cmd, args, currentCmd, currentArgs) ==
    IF currentArgs = <<>>
    THEN [cmd |-> cmd, args |-> args]
    ELSE LET nextCmd == Append(currentCmd, Head(currentArgs))
         IN IF dslRegistryHas(catalog, nextCmd)
            THEN [cmd |-> nextCmd, args |-> Tail(currentArgs)]
            ELSE underscoreFallback(catalog, cmd, args, nextCmd, Tail(currentArgs))

\* Bridge.resolveCommand, after the parse
resolveCommand(catalog, argv) ==
    LET one == tryAliases(catalog, 1, <<Head(argv)>>, argv)
        two == IF /\ ~dslRegistryHas(catalog, one.cmd)
                  /\ ~one.aliasFound
                  /\ one.args # <<>>
               THEN underscoreFallback(catalog, one.cmd, one.args, one.cmd, one.args)
               ELSE [cmd |-> one.cmd, args |-> one.args]
    IN [cmd |-> two.cmd, args |-> two.args, aliasFound |-> one.aliasFound,
        handler |-> dslRegistryHas(catalog, two.cmd)]

InitResolve ==
    /\ rcInput \in [catalog : Catalogs, argv : Argvs]
    /\ rcResult = NoResolution
    /\ IdleAllow
    /\ IdleShell
    /\ IdleSys
    /\ IdleConnections
    /\ IdleOffer
    /\ IdleCli
    /\ IdleSocket
    /\ IdleRecover
    /\ IdleGroups
    /\ IdleIds
    /\ IdleStore
    /\ IdleMerge

ResolveCommand ==
    /\ rcResult = NoResolution
    /\ rcResult' = resolveCommand(rcInput.catalog, rcInput.argv)
    /\ UNCHANGED <<rcInput, allowVars, shellVars, sysVars, mergeVars, collVars, idVars, grVars, recVars, sockVars, cliVars, offerVars, connVars>>

NextResolve == ResolveCommand

SpecResolve == InitResolve /\ [][NextResolve]_vars

(***************************************************************************)
(* Specification of the merge of the choices of one provider response, as  *)
(* the tick of the agent loop and the loop of the single-shot CLI do it.   *)
(***************************************************************************)
MaxChoices == 2
FinishReasons == {"stop", "length", "tool_calls"}
MergeLoops == {"tick", "cli"}
ChoiceLists ==
    UNION {[1..n -> {Choice(content, requests, fr) :
                       content \in {<<>>, <<"Pong">>},
                       requests \in {<<>>, <<[name |-> "shell__execute",
                                              args |-> LsCommand]>>},
                       fr \in FinishReasons}] : n \in 1..MaxChoices}
NotMerged == [role |-> "-", content |-> <<>>, tool_calls |-> <<>>, finish_reason |-> "-"]

\* the loop over response.choices in runLoop of cli.mjs, for finishReason
RECURSIVE cliFinishReason(_, _)
cliFinishReason(choices, finishReason) ==
    IF choices = <<>> THEN finishReason
    ELSE cliFinishReason(Tail(choices),
                         IF Head(choices).finish_reason = "tool_calls" THEN "tool_calls"
                         ELSE Head(choices).finish_reason)

\* the merged message of runLoop of cli.mjs
cliMergeChoices(choices) ==
    [role |-> "assistant", content |-> mergedContent(choices),
     tool_calls |-> mergedToolCalls(choices),
     finish_reason |-> cliFinishReason(choices, "stop")]

\* the merged message of AgentLoop.tick
tickMergeChoices(choices) ==
    [role |-> "assistant", content |-> mergeChoices(choices, 0).content,
     tool_calls |-> mergedToolCalls(choices),
     finish_reason |-> mergeChoices(choices, 0).finish_reason]

InitMerge ==
    /\ mgInput \in [loop : MergeLoops, choices : ChoiceLists]
    /\ mgResult = NotMerged
    /\ IdleAllow
    /\ IdleShell
    /\ IdleSys
    /\ IdleConnections
    /\ IdleOffer
    /\ IdleCli
    /\ IdleSocket
    /\ IdleRecover
    /\ IdleGroups
    /\ IdleIds
    /\ IdleStore
    /\ IdleResolve

TickMerge ==
    /\ mgResult = NotMerged
    /\ mgInput.loop = "tick"
    /\ mgResult' = tickMergeChoices(mgInput.choices)
    /\ UNCHANGED <<mgInput, allowVars, shellVars, sysVars, resolveVars, collVars, idVars, grVars, recVars, sockVars, cliVars, offerVars, connVars>>

CliMerge ==
    /\ mgResult = NotMerged
    /\ mgInput.loop = "cli"
    /\ mgResult' = cliMergeChoices(mgInput.choices)
    /\ UNCHANGED <<mgInput, allowVars, shellVars, sysVars, resolveVars, collVars, idVars, grVars, recVars, sockVars, cliVars, offerVars, connVars>>

NextMerge == TickMerge \/ CliMerge

SpecMerge == InitMerge /\ [][NextMerge]_vars

(***************************************************************************)
(* Specification of one YamlCollection (common/yaml-db.mjs) over its       *)
(* directory, with another process that writes and removes files of the    *)
(* directory.  A record is a value; a file holds a value or text that does *)
(* not parse.                                                              *)
(***************************************************************************)
MaxIds == 2
Ids == 1..MaxIds
NoFile == "no file"
Unparsable == "unparsable"
NoItem == "undefined"
Live == "record"
SoftDeleted == "record with deletedAt"
Values == {Live, SoftDeleted}

Collection ==
    [disk |-> disk, newer |-> newer, items |-> items, filePaths |-> filePaths,
     dirty |-> dirty, deleted |-> deleted, hasChanges |-> hasChanges]

\* YamlCollection._loadFile(id, filePath): statSync, readFileSync or fromYaml may
\* throw, the catch logs and leaves the collection as it is
loadFile(c, id) ==
    IF c.disk[id] \in {NoFile} THEN c
    ELSE IF ~c.newer[id] THEN [c EXCEPT !.filePaths = @ \cup {id}]
    ELSE IF c.disk[id] = Unparsable THEN c
    ELSE [c EXCEPT !.items[id] = c.disk[id], !.newer[id] = FALSE,
                   !.filePaths = @ \cup {id}]

\* YamlCollection._scanFiles: the ids of the files of the directory
scanFiles(c) == {id \in DOMAIN c.disk : c.disk[id] # NoFile}

RECURSIVE loadFiles(_, _)
loadFiles(c, ids) ==
    IF ids = {} THEN c
    ELSE LET id == CHOOSE i \in ids : TRUE
         IN loadFiles(loadFile(c, id), ids \ {id})

\* YamlCollection.get(id): the collection afterwards and the value returned
collectionGet(c, id) ==
    IF id \in c.filePaths \/ c.disk[id] # NoFile
    THEN [c |-> loadFile(c, id), value |-> loadFile(c, id).items[id]]
    ELSE [c |-> c, value |-> NoItem]

\* YamlCollection.set(id, data)
collectionSet(c, id, data) ==
    [c EXCEPT !.items[id] = data, !.dirty = @ \cup {id}, !.deleted = @ \ {id},
              !.hasChanges = TRUE]

\* YamlCollection.delete(id): the collection afterwards and the value returned
collectionDelete(c, id) ==
    IF c.items[id] # NoItem \/ id \in c.filePaths
    THEN [c |-> [c EXCEPT !.items[id] = NoItem, !.deleted = @ \cup {id},
                          !.dirty = @ \ {id}, !.hasChanges = TRUE],
          value |-> TRUE]
    ELSE [c |-> c, value |-> FALSE]

\* YamlCollection.getAll(): the collection afterwards and the ids whose records
\* are in the result
collectionGetAll(c) ==
    LET loaded == loadFiles(c, scanFiles(c))
    IN [c |-> loaded, value |-> {id \in scanFiles(c) : loaded.items[id] # NoItem}]

\* YamlCollection.save()
collectionSave(c) ==
    IF ~c.hasChanges THEN c
    ELSE [c EXCEPT
            !.disk = [id \in DOMAIN c.disk |->
                        IF id \in c.dirty /\ c.items[id] # NoItem THEN c.items[id]
                        ELSE IF id \in c.deleted THEN NoFile
                        ELSE c.disk[id]],
            !.newer = [id \in DOMAIN c.disk |->
                         (id \in c.dirty /\ c.items[id] # NoItem) \/ c.newer[id]],
            !.filePaths = (@ \ c.deleted) \cup {id \in c.dirty : c.items[id] # NoItem},
            !.deleted = {}, !.dirty = {}, !.hasChanges = FALSE]

\* YamlCollection.loadAll()
collectionLoadAll(c) ==
    LET cleared == [c EXCEPT !.dirty = {}, !.deleted = {}, !.hasChanges = FALSE]
        loaded == loadFiles(cleared, scanFiles(c))
    IN [loaded EXCEPT
          !.items = [id \in DOMAIN c.disk |-> IF id \in scanFiles(c) THEN @[id] ELSE NoItem],
          !.newer = [id \in DOMAIN c.disk |-> IF id \in scanFiles(c) \/ loaded.items[id] = NoItem
                                    THEN @[id] ELSE TRUE],
          !.filePaths = {id \in @ : id \in scanFiles(c) \/ loaded.items[id] = NoItem}]

\* the loop of clean over one collection: delete every listed id, then save
RECURSIVE deleteEach(_, _)
deleteEach(c, ids) ==
    IF ids = {} THEN c
    ELSE LET id == CHOOSE i \in ids : TRUE
         IN deleteEach(collectionDelete(c, id).c, ids \ {id})

SetCollection(c) ==
    /\ disk' = c.disk
    /\ newer' = c.newer
    /\ items' = c.items
    /\ filePaths' = c.filePaths
    /\ dirty' = c.dirty
    /\ deleted' = c.deleted
    /\ hasChanges' = c.hasChanges

Called(op, id, value) == [op |-> op, id |-> id, value |-> value]

InitStore ==
    /\ disk \in [Ids -> Values \cup {NoFile, Unparsable}]
    /\ newer = [id \in Ids |-> TRUE]
    /\ items = [id \in Ids |-> NoItem]
    /\ filePaths = {}
    /\ dirty = {}
    /\ deleted = {}
    /\ hasChanges = FALSE
    /\ stLast = Called("new", 0, "-")
    /\ lastSet = [id \in Ids |-> NoItem]
    /\ IdleAllow
    /\ IdleShell
    /\ IdleSys
    /\ IdleConnections
    /\ IdleOffer
    /\ IdleCli
    /\ IdleSocket
    /\ IdleRecover
    /\ IdleGroups
    /\ IdleIds
    /\ IdleResolve
    /\ IdleMerge

Get ==
    /\ \E id \in Ids :
         \E r \in {collectionGet(Collection, id)} :
            /\ SetCollection(r.c)
            /\ stLast' = Called("get", id, r.value)
    /\ UNCHANGED lastSet
    /\ UNCHANGED <<allowVars, shellVars, sysVars, resolveVars, mergeVars, idVars, grVars, recVars, sockVars, cliVars, offerVars, connVars>>

GetAll ==
    /\ \E r \in {collectionGetAll(Collection)} :
         /\ SetCollection(r.c)
         /\ stLast' = Called("getAll", 0, r.value)
    /\ UNCHANGED lastSet
    /\ UNCHANGED <<allowVars, shellVars, sysVars, resolveVars, mergeVars, idVars, grVars, recVars, sockVars, cliVars, offerVars, connVars>>

SetRecord ==
    /\ \E id \in Ids, data \in Values :
         /\ SetCollection(collectionSet(Collection, id, data))
         /\ stLast' = Called("set", id, data)
         /\ lastSet' = [lastSet EXCEPT ![id] = data]
    /\ UNCHANGED <<allowVars, shellVars, sysVars, resolveVars, mergeVars, idVars, grVars, recVars, sockVars, cliVars, offerVars, connVars>>

Delete ==
    /\ \E id \in Ids :
         \E r \in {collectionDelete(Collection, id)} :
            /\ SetCollection(r.c)
            /\ stLast' = Called("delete", id, r.value)
            /\ lastSet' = [lastSet EXCEPT ![id] = NoItem]
    /\ UNCHANGED <<allowVars, shellVars, sysVars, resolveVars, mergeVars, idVars, grVars, recVars, sockVars, cliVars, offerVars, connVars>>

Save ==
    /\ SetCollection(collectionSave(Collection))
    /\ stLast' = Called("save", 0, "-")
    /\ lastSet' = [id \in Ids |-> NoItem]
    /\ UNCHANGED <<allowVars, shellVars, sysVars, resolveVars, mergeVars, idVars, grVars, recVars, sockVars, cliVars, offerVars, connVars>>

LoadAll ==
    /\ SetCollection(collectionLoadAll(Collection))
    /\ stLast' = Called("loadAll", 0, "-")
    /\ UNCHANGED lastSet
    /\ UNCHANGED <<allowVars, shellVars, sysVars, resolveVars, mergeVars, idVars, grVars, recVars, sockVars, cliVars, offerVars, connVars>>

\* clean, for this collection
Clean ==
    /\ SetCollection(collectionSave(deleteEach(Collection, scanFiles(Collection))))
    /\ stLast' = Called("clean", 0, scanFiles(Collection))
    /\ lastSet' = [id \in Ids |-> NoItem]
    /\ UNCHANGED <<allowVars, shellVars, sysVars, resolveVars, mergeVars, idVars, grVars, recVars, sockVars, cliVars, offerVars, connVars>>

\* another process writes the file of an id (writeYaml), or a write of it is cut
\* short
OtherProcessWrites ==
    /\ \E id \in Ids, text \in Values \cup {Unparsable} :
         /\ disk' = [disk EXCEPT ![id] = text]
         /\ newer' = [newer EXCEPT ![id] = TRUE]
         /\ stLast' = Called("written", id, text)
    /\ UNCHANGED <<items, filePaths, dirty, deleted, hasChanges, lastSet>>
    /\ UNCHANGED <<allowVars, shellVars, sysVars, resolveVars, mergeVars, idVars, grVars, recVars, sockVars, cliVars, offerVars, connVars>>

\* another process removes the file of an id (delete and save on its collection)
OtherProcessRemoves ==
    /\ \E id \in Ids :
         /\ disk[id] # NoFile
         /\ disk' = [disk EXCEPT ![id] = NoFile]
         /\ stLast' = Called("removed", id, "-")
    /\ UNCHANGED <<newer, items, filePaths, dirty, deleted, hasChanges, lastSet>>
    /\ UNCHANGED <<allowVars, shellVars, sysVars, resolveVars, mergeVars, idVars, grVars, recVars, sockVars, cliVars, offerVars, connVars>>

NextStore ==
    \/ Get
    \/ GetAll
    \/ SetRecord
    \/ Delete
    \/ Save
    \/ LoadAll
    \/ Clean
    \/ OtherProcessWrites
    \/ OtherProcessRemoves

SpecStore == InitStore /\ [][NextStore]_vars

(***************************************************************************)
(* Specification of the session ids: SessionModel.init, generateId and     *)
(* resetId in the host process, the single-shot CLI as a second process,   *)
(* the record files of agent/sessions and the workspaces of db/workspaces. *)
(***************************************************************************)
MaxSessionId == 3
SessionIds == 1..MaxSessionId

Max(ids) == CHOOSE i \in ids : \A j \in ids : j <= i

\* SessionModel.init: the counter after it, from the listed record files
initNextId(listed) == IF listed # {} THEN Max(listed) + 1 ELSE 1

Generated(by, id) ==
    [by |-> by, id |-> id, files |-> recordFiles, workspaces |-> workspaces]

InitIds ==
    /\ nextSessionId = 0
    /\ initialized = FALSE
    /\ recordFiles = {}
    /\ loadedIds = {}
    /\ workspaces = {}
    /\ idLast = Generated("nobody", 0)
    /\ IdleAllow
    /\ IdleShell
    /\ IdleSys
    /\ IdleConnections
    /\ IdleOffer
    /\ IdleCli
    /\ IdleSocket
    /\ IdleRecover
    /\ IdleGroups
    /\ IdleResolve
    /\ IdleMerge
    /\ IdleStore

\* createAgent in the host: generateId (with init), create without persisting,
\* spawnAgentContainer makes the workspace of the id
CreateAgent ==
    /\ \E id \in {IF initialized THEN nextSessionId ELSE initNextId(recordFiles)} :
         /\ id <= MaxSessionId
         /\ nextSessionId' = id + 1
         /\ workspaces' = workspaces \cup {id}
         /\ idLast' = Generated("host", id)
    /\ initialized' = TRUE
    /\ UNCHANGED <<recordFiles, loadedIds>>
    /\ UNCHANGED <<allowVars, shellVars, sysVars, resolveVars, mergeVars, collVars, grVars, recVars, sockVars, cliVars, offerVars, connVars>>

\* a single-shot CLI process: generateId in a new process, create and save
CliCreate ==
    /\ \E id \in {initNextId(recordFiles)} :
         /\ id <= MaxSessionId
         /\ recordFiles' = recordFiles \cup {id}
         /\ idLast' = Generated("cli", id)
    /\ UNCHANGED <<nextSessionId, initialized, loadedIds, workspaces>>
    /\ UNCHANGED <<allowVars, shellVars, sysVars, resolveVars, mergeVars, collVars, grVars, recVars, sockVars, cliVars, offerVars, connVars>>

\* SessionModel.list in the host: collection.list and collection.get of each id
ListSessions ==
    /\ loadedIds' = recordFiles
    /\ UNCHANGED <<nextSessionId, initialized, recordFiles, workspaces, idLast>>
    /\ UNCHANGED <<allowVars, shellVars, sysVars, resolveVars, mergeVars, collVars, grVars, recVars, sockVars, cliVars, offerVars, connVars>>

\* the daemon stops and starts again
Restart ==
    /\ nextSessionId' = 0
    /\ initialized' = FALSE
    /\ loadedIds' = {}
    /\ UNCHANGED <<recordFiles, workspaces, idLast>>
    /\ UNCHANGED <<allowVars, shellVars, sysVars, resolveVars, mergeVars, collVars, grVars, recVars, sockVars, cliVars, offerVars, connVars>>

\* clean in the host: delete and save remove the files of the ids the collection
\* knows, cleanupAll removes every workspace, resetId
CleanAll ==
    /\ recordFiles' = recordFiles \ loadedIds
    /\ loadedIds' = {}
    /\ workspaces' = {}
    /\ nextSessionId' = 1
    /\ UNCHANGED <<initialized, idLast>>
    /\ UNCHANGED <<allowVars, shellVars, sysVars, resolveVars, mergeVars, collVars, grVars, recVars, sockVars, cliVars, offerVars, connVars>>

NextIds ==
    \/ CreateAgent
    \/ CliCreate
    \/ ListSessions
    \/ Restart
    \/ CleanAll

SpecIds == InitIds /\ [][NextIds]_vars

(***************************************************************************)
(* Specification of the group commands (GroupTools over GroupModel) on the *)
(* collection of db/groups.  A group record is written as the text of its  *)
(* members list.                                                           *)
(***************************************************************************)
MaxMembers == 2
MemberIds == 1..MaxMembers
GroupNames == {"g1", "g2"}
GroupRecords == {"[]", "[1]", "[2]", "[1,2]"}

\* the members of a group record
members(group) ==
    CASE group = "[1]" -> {1}
      [] group = "[2]" -> {2}
      [] group = "[1,2]" -> {1, 2}
      [] OTHER -> {}

\* the group record with these members
groupOf(ids) == CHOOSE group \in GroupRecords : members(group) = ids

\* GroupTools.create
groupCreate(c, name) ==
    IF collectionGet(c, name).value # NoItem THEN collectionGet(c, name).c
    ELSE collectionSet(collectionGet(c, name).c, name, groupOf({}))

\* the exclusive membership check of GroupTools.add: some other listed group
\* has the id
inOtherGroup(c, name, id) ==
    \E g \in scanFiles(c) :
        /\ g # name
        /\ collectionGet(c, g).value # NoItem
        /\ id \in members(collectionGet(c, g).value)

\* GroupTools.add
groupAdd(c, name, id) ==
    LET got == collectionGet(c, name)
        listed == loadFiles(got.c, scanFiles(got.c))
    IN IF got.value = NoItem THEN collectionSet(got.c, name, groupOf({id}))
       ELSE IF inOtherGroup(got.c, name, id) THEN listed
       ELSE IF id \notin members(got.value)
            THEN collectionSet(listed, name, groupOf(members(got.value) \cup {id}))
            ELSE listed

\* GroupTools.remove
groupRemove(c, name, id) ==
    LET got == collectionGet(c, name)
    IN IF got.value = NoItem THEN got.c
       ELSE collectionSet(got.c, name, groupOf(members(got.value) \ {id}))

\* GroupTools.delete
groupDelete(c, name) ==
    LET got == collectionGet(c, name)
    IN IF got.value = NoItem THEN got.c ELSE collectionDelete(got.c, name).c

InitGroups ==
    /\ groups = [disk |-> [g \in GroupNames |-> NoFile],
                 newer |-> [g \in GroupNames |-> TRUE],
                 items |-> [g \in GroupNames |-> NoItem],
                 filePaths |-> {}, dirty |-> {}, deleted |-> {},
                 hasChanges |-> FALSE]
    /\ grLast = "new"
    /\ IdleAllow
    /\ IdleShell
    /\ IdleSys
    /\ IdleConnections
    /\ IdleOffer
    /\ IdleCli
    /\ IdleSocket
    /\ IdleRecover
    /\ IdleResolve
    /\ IdleMerge
    /\ IdleStore
    /\ IdleIds

GroupCreate ==
    /\ \E name \in GroupNames : groups' = groupCreate(groups, name)
    /\ grLast' = "create"
    /\ UNCHANGED <<allowVars, shellVars, sysVars, resolveVars, mergeVars, collVars, idVars, recVars, sockVars, cliVars, offerVars, connVars>>

GroupAdd ==
    /\ \E name \in GroupNames, id \in MemberIds : groups' = groupAdd(groups, name, id)
    /\ grLast' = "add"
    /\ UNCHANGED <<allowVars, shellVars, sysVars, resolveVars, mergeVars, collVars, idVars, recVars, sockVars, cliVars, offerVars, connVars>>

GroupRemove ==
    /\ \E name \in GroupNames, id \in MemberIds : groups' = groupRemove(groups, name, id)
    /\ grLast' = "remove"
    /\ UNCHANGED <<allowVars, shellVars, sysVars, resolveVars, mergeVars, collVars, idVars, recVars, sockVars, cliVars, offerVars, connVars>>

GroupDelete ==
    /\ \E name \in GroupNames : groups' = groupDelete(groups, name)
    /\ grLast' = "delete"
    /\ UNCHANGED <<allowVars, shellVars, sysVars, resolveVars, mergeVars, collVars, idVars, recVars, sockVars, cliVars, offerVars, connVars>>

\* clean, for the collection of the groups: the save writes the groups that
\* were set
GroupClean ==
    /\ groups' = collectionSave(deleteEach(groups, scanFiles(groups)))
    /\ grLast' = "clean"
    /\ UNCHANGED <<allowVars, shellVars, sysVars, resolveVars, mergeVars, collVars, idVars, recVars, sockVars, cliVars, offerVars, connVars>>

NextGroups ==
    \/ GroupCreate
    \/ GroupAdd
    \/ GroupRemove
    \/ GroupDelete
    \/ GroupClean

SpecGroups == InitGroups /\ [][NextGroups]_vars

(***************************************************************************)
(* Specification of the recovery scan of the host (recoverSessions) over   *)
(* the sessions that are on disk when the host starts.                     *)
(***************************************************************************)
MaxSessions == 2
RecIds == 1..MaxSessions
HostDir == "agent/sessions"
WorkspaceDir == "db/workspaces/<id>/db/sessions"
ContainerStates == {"running", "stopped", "missing"}
ActiveStatuses == {"pending", "running", "paused"}
NotScanned == [visited |-> {}, respawned |-> {}, transitioned |-> {}, done |-> FALSE]

\* a session on disk: the directory of its record file, its status, whether it
\* carries deletedAt
PersistedSessions ==
    [dir : {HostDir, WorkspaceDir}, status : Statuses, deletedAt : BOOLEAN]

\* SessionModel.list of the host: the ids of agent/sessions without deletedAt
hostList(sessions) ==
    {id \in DOMAIN sessions : sessions[id].dir = HostDir /\ ~sessions[id].deletedAt}

\* recoverSessions: the sessions it visits, respawns and transitions
recoverSessions(sessions, containerStatus) ==
    LET visited == hostList(sessions)
        active == {id \in visited : sessions[id].status \in ActiveStatuses}
        respawned == {id \in active : containerStatus[id] # "running"}
    IN [visited |-> visited, respawned |-> respawned,
        transitioned |-> {id \in respawned : sessions[id].status = "stopped"},
        done |-> TRUE]

InitRecover ==
    /\ persisted \in [RecIds -> PersistedSessions]
    /\ containers \in [RecIds -> ContainerStates]
    /\ recovery = NotScanned
    /\ IdleAllow
    /\ IdleShell
    /\ IdleSys
    /\ IdleConnections
    /\ IdleOffer
    /\ IdleCli
    /\ IdleSocket
    /\ IdleResolve
    /\ IdleMerge
    /\ IdleStore
    /\ IdleIds
    /\ IdleGroups

\* the host has started: the scan runs once; a respawned container runs, a
\* transitioned session is running
RecoverSessions ==
    /\ ~recovery.done
    /\ \E r \in {recoverSessions(persisted, containers)} :
         /\ recovery' = [r EXCEPT !.done = TRUE]
         /\ containers' = [id \in RecIds |->
                             IF id \in r.respawned THEN "running" ELSE containers[id]]
         /\ persisted' = [id \in RecIds |->
                            IF id \in r.transitioned
                            THEN [persisted[id] EXCEPT !.status = "running"]
                            ELSE persisted[id]]
    /\ UNCHANGED <<allowVars, shellVars, sysVars, resolveVars, mergeVars, collVars, idVars, grVars, sockVars, cliVars, offerVars, connVars>>

NextRecover == RecoverSessions

SpecRecover == InitRecover /\ [][NextRecover]_vars

(***************************************************************************)
(* Specification of one direction of a host-child socket: the sender       *)
(* writes lines, the socket delivers them in order in chunks, and every    *)
(* 'data' event calls the receiver's async handler (connectToHost in the   *)
(* child, createContainerSocket in the host), which handles the lines of   *)
(* its chunk one after the other and awaits route for each.  A line either *)
(* is handled without giving up the event loop or waits at an await for    *)
(* something outside (a tool, a provider, a write).                        *)
(***************************************************************************)
MaxLines == 4
Lines == [id : 1..MaxLines, waits : BOOLEAN]

\* the loop `for (const line of lines)` of one invocation of the data handler,
\* run until it waits at an await or has no line left: the lines left (the
\* first one is being handled), the lines started and the lines completed
RECURSIVE handleLines(_, _, _)
handleLines(lines, startedBefore, completedBefore) ==
    IF lines = <<>>
    THEN [lines |-> <<>>, started |-> startedBefore, completed |-> completedBefore]
    ELSE IF Head(lines).waits
         THEN [lines |-> lines, started |-> Append(startedBefore, Head(lines).id),
               completed |-> completedBefore]
         ELSE handleLines(Tail(lines), Append(startedBefore, Head(lines).id),
                          completedBefore \cup {Head(lines).id})

InitSocket ==
    /\ lnSent = 0
    /\ lnWire = <<>>
    /\ lnHandlers = {}
    /\ lnStarted = <<>>
    /\ lnCompleted = {}
    /\ IdleAllow
    /\ IdleShell
    /\ IdleSys
    /\ IdleConnections
    /\ IdleOffer
    /\ IdleCli
    /\ IdleResolve
    /\ IdleMerge
    /\ IdleStore
    /\ IdleIds
    /\ IdleGroups
    /\ IdleRecover

\* the sender writes one more line to the socket
WriteLine ==
    /\ lnSent < MaxLines
    /\ \E waits \in BOOLEAN :
         lnWire' = Append(lnWire, [id |-> lnSent + 1, waits |-> waits])
    /\ lnSent' = lnSent + 1
    /\ UNCHANGED <<lnHandlers, lnStarted, lnCompleted>>
    /\ UNCHANGED <<allowVars, shellVars, sysVars, resolveVars, mergeVars, collVars, idVars, grVars, recVars, cliVars, offerVars, connVars>>

\* a 'data' event with the next n complete lines: a new invocation of the
\* handler, which runs until its first await that waits
OnData ==
    /\ \E n \in 1..Len(lnWire) :
         \E r \in {handleLines(SubSeq(lnWire, 1, n), lnStarted, lnCompleted)} :
            /\ lnWire' = SubSeq(lnWire, n + 1, Len(lnWire))
            /\ lnHandlers' = IF r.lines = <<>> THEN lnHandlers
                             ELSE lnHandlers \cup {r.lines}
            /\ lnStarted' = r.started
            /\ lnCompleted' = r.completed
    /\ UNCHANGED lnSent
    /\ UNCHANGED <<allowVars, shellVars, sysVars, resolveVars, mergeVars, collVars, idVars, grVars, recVars, cliVars, offerVars, connVars>>

\* the await of one waiting invocation returns: its line is handled and the
\* loop goes on with the lines after it
AwaitReturns ==
    /\ \E lines \in lnHandlers :
         \E r \in {handleLines(Tail(lines), lnStarted, lnCompleted \cup {Head(lines).id})} :
            /\ lnHandlers' = IF r.lines = <<>> THEN lnHandlers \ {lines}
                             ELSE (lnHandlers \ {lines}) \cup {r.lines}
            /\ lnStarted' = r.started
            /\ lnCompleted' = r.completed
    /\ UNCHANGED <<lnSent, lnWire>>
    /\ UNCHANGED <<allowVars, shellVars, sysVars, resolveVars, mergeVars, collVars, idVars, grVars, recVars, cliVars, offerVars, connVars>>

NextSocket ==
    \/ WriteLine
    \/ OnData
    \/ AwaitReturns

SpecSocket == InitSocket /\ [][NextSocket]_vars

(***************************************************************************)
(* Specification of runLoop of the single-shot CLI (cli.mjs) with a turn   *)
(* limit.  A limit of 0 stands for null (no limit).                        *)
(***************************************************************************)
MaxTurnLimit == 3
MaxOverrun == 2
MaxFailLimit == 2
CliFinishReasons == {"stop", "end_turn", "length"}
StillRunning == "running"

InitCli ==
    /\ turnCount = 0
    /\ validationFailCount = 0
    /\ effectiveTurnLimit \in 1..MaxTurnLimit
    /\ maxValidationFails \in 0..MaxFailLimit
    /\ validateFn \in BOOLEAN
    /\ exitCode = StillRunning
    /\ IdleAllow
    /\ IdleShell
    /\ IdleSys
    /\ IdleConnections
    /\ IdleOffer
    /\ IdleResolve
    /\ IdleMerge
    /\ IdleStore
    /\ IdleIds
    /\ IdleGroups
    /\ IdleRecover
    /\ IdleSocket

\* the turn limit is set and used up
limitReached(count) == effectiveTurnLimit # 0 /\ count >= effectiveTurnLimit

\* one pass of the while loop: the provider call and what follows from the
\* merged response, its tool calls, its finish reason and the validation
Turn ==
    /\ exitCode = StillRunning
    /\ turnCount < effectiveTurnLimit + MaxOverrun
    /\ turnCount' = turnCount + 1
    /\ \E hasToolCalls \in BOOLEAN, finishReason \in CliFinishReasons, valid \in BOOLEAN :
         IF hasToolCalls
         THEN /\ exitCode' = IF limitReached(turnCount + 1) THEN "1" ELSE StillRunning
              /\ UNCHANGED validationFailCount
         ELSE IF finishReason \notin {"stop", "end_turn"}
         THEN UNCHANGED <<exitCode, validationFailCount>>
         ELSE IF ~validateFn \/ valid
         THEN /\ exitCode' = "0"
              /\ UNCHANGED validationFailCount
         ELSE /\ validationFailCount' = validationFailCount + 1
              /\ exitCode' =
                   IF maxValidationFails # 0 /\ validationFailCount + 1 >= maxValidationFails
                   THEN "1"
                   ELSE IF limitReached(turnCount + 1) THEN "1" ELSE StillRunning
    /\ UNCHANGED <<effectiveTurnLimit, maxValidationFails, validateFn>>
    /\ UNCHANGED <<allowVars, shellVars, sysVars, resolveVars, mergeVars, collVars, idVars, grVars, recVars, sockVars, offerVars, connVars>>

\* createChatCompletion throws: the catch around runLoop exits with 1
ProviderFails ==
    /\ exitCode = StillRunning
    /\ turnCount < effectiveTurnLimit + MaxOverrun
    /\ turnCount' = turnCount + 1
    /\ exitCode' = "1"
    /\ UNCHANGED <<validationFailCount, effectiveTurnLimit, maxValidationFails, validateFn>>
    /\ UNCHANGED <<allowVars, shellVars, sysVars, resolveVars, mergeVars, collVars, idVars, grVars, recVars, sockVars, offerVars, connVars>>

NextCli ==
    \/ Turn
    \/ ProviderFails

SpecCli == InitCli /\ [][NextCli]_vars

(***************************************************************************)
(* Specification of the tool set of one tick (AgentLoop.tick): the plugin  *)
(* registry, the tools of the session's metadata, and the tools and the    *)
(* tool metadata that the tick hands to the provider call.                 *)
(***************************************************************************)
OfferedNames == {"shell__execute", "human__ask", "human__approvals__list"}
\* globals.humanOnlyTools, as the human plugin fills it
humanOnlyTools == {"human__approvals__list"}
\* a tool definition of a plugin: its name and the humanOnly of its metadata
ToolDefinitions == [name : OfferedNames, humanOnlyFlag : BOOLEAN]
PluginDefinitions == UNION {[1..n -> ToolDefinitions] : n \in 1..MaxTools}
PluginsRegistries == UNION {[1..n -> PluginDefinitions] : n \in 1..MaxPlugins}
\* an item of metadata.tools: a name, or an object of one name and its options
NoOptions == "string"
ToolOptions == {"host_danger", "allowlist"}
MaxSessionTools == 2
SessionToolItems == [name : OfferedNames, options : ToolOptions \cup {NoOptions}]
SessionToolLists == UNION {[1..n -> SessionToolItems] : n \in 0..MaxSessionTools}
\* metadata of a session: with a tools key and its list, or without the key
NoToolsKey == [hasTools |-> FALSE, tools |-> <<>>]
SessionMetadatas == {[hasTools |-> TRUE, tools |-> l] : l \in SessionToolLists} \cup {NoToolsKey}
NotGathered == <<>>

\* session.metadata?.tools || []
sessionToolsOf(metadata) == IF metadata.hasTools THEN metadata.tools ELSE <<>>

\* the Set allowedTools that the tick fills from the items
allowedToolsOf(sessionTools) == {sessionTools[i].name : i \in DOMAIN sessionTools}

\* the Map toolOverrides: the options of the last object item of a name
toolOverridesOf(sessionTools, toolName) ==
    LET at == {i \in DOMAIN sessionTools :
                 sessionTools[i].name = toolName /\ sessionTools[i].options # NoOptions}
    IN IF at = {} THEN NoOptions
       ELSE sessionTools[CHOOSE i \in at : \A j \in at : j <= i].options

RECURSIVE registryTools(_)
\* the tools of the registry in the order of the two nested loops
registryTools(registry) ==
    IF registry = <<>> THEN <<>> ELSE Head(registry) \o registryTools(Tail(registry))

\* the two `continue` tests of the inner loop
offeredTool(tool, allowedTools) ==
    /\ ~(allowedTools # {} /\ tool.name \notin allowedTools)
    /\ ~(tool.humanOnlyFlag \/ tool.name \in humanOnlyTools)

RECURSIVE namesOf(_)
namesOf(defs) == IF defs = <<>> THEN <<>> ELSE <<Head(defs).name>> \o namesOf(Tail(defs))

\* the tools of the tick, and the names that its toolMetadata marks with
\* requiresHostExecution
gatherTools(registry, metadata) ==
    LET sessionTools == sessionToolsOf(metadata)
        allowedTools == allowedToolsOf(sessionTools)
        kept == SelectSeq(registryTools(registry), LAMBDA tool : offeredTool(tool, allowedTools))
    IN [tools |-> namesOf(kept),
        toolMetadata |->
            {kept[i].name : i \in {j \in DOMAIN kept :
                toolOverridesOf(sessionTools, kept[j].name) = "host_danger"}}]

InitOffer ==
    /\ gtInput \in [registry : PluginsRegistries, metadata : SessionMetadatas]
    /\ gtResult = NotGathered
    /\ IdleAllow
    /\ IdleShell
    /\ IdleSys
    /\ IdleConnections
    /\ IdleResolve
    /\ IdleMerge
    /\ IdleStore
    /\ IdleIds
    /\ IdleGroups
    /\ IdleRecover
    /\ IdleSocket
    /\ IdleCli

GatherTools ==
    /\ gtResult = NotGathered
    /\ gtResult' = gatherTools(gtInput.registry, gtInput.metadata)
    /\ UNCHANGED <<gtInput, allowVars, shellVars, sysVars, resolveVars, mergeVars, collVars, idVars, grVars, recVars, sockVars, cliVars, connVars>>

NextOffer == GatherTools

SpecOffer == InitOffer /\ [][NextOffer]_vars

(***************************************************************************)
(* Specification of the host's connection registry (Bridge.hostConnections *)
(* and the connection callback of AgentPlugin.createContainerSocket).  The *)
(* server of a session accepts any number of connections; a connection is  *)
(* registered by a callback that runs after the import of the bridge has   *)
(* resolved, and its close listener is attached by that registration.      *)
(***************************************************************************)
MaxConnections == 3
MaxConnSessions == 2
ConnectionIds == 1..MaxConnections
ConnSessionIds == 1..MaxConnSessions
NoConnection == 0
\* a socket that no server has accepted yet
NotAccepted == [sessionId |-> 0, open |-> FALSE, registered |-> FALSE]

\* the connections accepted so far, in the order of their acceptance
AcceptedConnections == {c \in ConnectionIds : sockets[c] # NotAccepted}

\* Bridge.registerConnection: hostConnections.set(sessionId, socket)
registerConnection(connections, sessionId, socket) ==
    [connections EXCEPT ![sessionId] = socket]

\* the close listener of registerConnection: hostConnections.delete(sessionId)
onClose(connections, sessionId) ==
    [connections EXCEPT ![sessionId] = NoConnection]

InitConnections ==
    /\ hostConnections = [s \in ConnSessionIds |-> NoConnection]
    /\ sockets = [c \in ConnectionIds |-> NotAccepted]
    /\ IdleAllow
    /\ IdleShell
    /\ IdleSys
    /\ IdleResolve
    /\ IdleMerge
    /\ IdleStore
    /\ IdleIds
    /\ IdleGroups
    /\ IdleRecover
    /\ IdleSocket
    /\ IdleCli
    /\ IdleOffer

\* the server of a session accepts a connection: the connection callback
\* starts the import of the bridge
AcceptConnection ==
    /\ \E sessionId \in ConnSessionIds, c \in ConnectionIds :
         /\ sockets[c] = NotAccepted
         /\ \A d \in ConnectionIds : d < c => sockets[d] # NotAccepted
         /\ sockets' = [sockets EXCEPT ![c] = [sessionId |-> sessionId, open |-> TRUE,
                                                registered |-> FALSE]]
    /\ UNCHANGED <<hostConnections, allowVars, shellVars, sysVars, resolveVars, mergeVars, collVars, idVars, grVars, recVars, sockVars, cliVars, offerVars>>

\* the import has resolved: Bridge.registerConnection sets the entry of the
\* session and attaches the close listener, whether or not the socket is
\* still open; the callbacks of the imports run in the order of the calls
RegisterConnection ==
    /\ \E c \in ConnectionIds :
         /\ sockets[c] # NotAccepted
         /\ ~sockets[c].registered
         /\ \A d \in ConnectionIds : d < c => sockets[d].registered
         /\ hostConnections' = registerConnection(hostConnections, sockets[c].sessionId, c)
         /\ sockets' = [sockets EXCEPT ![c].registered = TRUE]
    /\ UNCHANGED <<allowVars, shellVars, sysVars, resolveVars, mergeVars, collVars, idVars, grVars, recVars, sockVars, cliVars, offerVars>>

\* a connection closes: the close listener runs if the registration has
\* attached it
CloseConnection ==
    /\ \E c \in ConnectionIds :
         /\ sockets[c].open
         /\ sockets' = [sockets EXCEPT ![c].open = FALSE]
         /\ hostConnections' = IF sockets[c].registered
                               THEN onClose(hostConnections, sockets[c].sessionId)
                               ELSE hostConnections
    /\ UNCHANGED <<allowVars, shellVars, sysVars, resolveVars, mergeVars, collVars, idVars, grVars, recVars, sockVars, cliVars, offerVars>>

NextConnections == AcceptConnection \/ RegisterConnection \/ CloseConnection

SpecConnections == InitConnections /\ [][NextConnections]_vars

(***************************************************************************)
(* Claims about the allowlist and the shell tools.                         *)
(***************************************************************************)
resolvesToDeny(rule) == ~rule.value.isNull /\ ~rule.value.approve
resolvesToApprove(rule) == ~rule.value.isNull /\ rule.value.approve

\* some rule that resolves to deny matches the full line or a parsed sub-command
SomeDenyRuleMatches(allowlist, commandLine) ==
    \E i \in DOMAIN allowlist :
        /\ resolvesToDeny(allowlist[i])
        /\ \/ matchesPattern(commandLine, allowlist[i].pat)
           \/ \E j \in DOMAIN parseCommandLine(commandLine) :
                 matchesPattern(parseCommandLine(commandLine)[j], allowlist[i].pat)

FullLineApprovedByRule(allowlist, commandLine) ==
    \E i \in DOMAIN allowlist :
        /\ resolvesToApprove(allowlist[i])
        /\ allowlist[i].value.isObject /\ allowlist[i].value.mcl
        /\ matchesPattern(commandLine, allowlist[i].pat)

EverySubCommandApprovedByRule(allowlist, commandLine) ==
    \A j \in DOMAIN parseCommandLine(commandLine) :
        \E i \in DOMAIN allowlist :
            /\ resolvesToApprove(allowlist[i])
            /\ matchesPattern(parseCommandLine(commandLine)[j], allowlist[i].pat)

\* C8: checkCommand approves a command line if and only if (a) no rule
\* matching the full line or any parsed sub-command resolves to deny, and
\* (b) either the full line matches an approve rule that has
\* matchCommandLine: true, or every parsed sub-command is approved by some
\* rule.
C8_ApprovedIffAllowlistRule ==
    alInput.checked =>
        (alResult.approved <=>
            /\ ~SomeDenyRuleMatches(alInput.allowlist, alInput.commandLine)
            /\ \/ FullLineApprovedByRule(alInput.allowlist, alInput.commandLine)
               \/ EverySubCommandApprovedByRule(alInput.allowlist, alInput.commandLine))

\* the deny rules the check applies to a command line: a plain false rule is
\* tried on the full line and on every sub-command, an object rule on the
\* full line when matchCommandLine is set and on the sub-commands otherwise
AppliedDenyRules(allowlist, commandLine) ==
    {allowlist[i].pat : i \in
        {k \in DOMAIN allowlist :
            /\ resolvesToDeny(allowlist[k])
            /\ \/ /\ ~(allowlist[k].value.isObject /\ ~allowlist[k].value.mcl)
                  /\ matchesPattern(commandLine, allowlist[k].pat)
               \/ /\ ~(allowlist[k].value.isObject /\ allowlist[k].value.mcl)
                  /\ \E j \in DOMAIN parseCommandLine(commandLine) :
                        matchesPattern(parseCommandLine(commandLine)[j],
                                       allowlist[k].pat)}}

MatchedDenyRules(allowlist, commandLine) ==
    {allowlist[i].pat : i \in
        {k \in DOMAIN allowlist :
            /\ resolvesToDeny(allowlist[k])
            /\ \/ matchesPattern(commandLine, allowlist[k].pat)
               \/ \E j \in DOMAIN parseCommandLine(commandLine) :
                     matchesPattern(parseCommandLine(commandLine)[j], allowlist[k].pat)}}

FirstInvocation == shLast.out.kind # "none" /\ shLast.in.state = EmptyState

RejectedWithDenyRule(out, rules) ==
    /\ out.kind = "return"
    /\ out.status = ToolExecutionStatus.FAILURE
    /\ out.reason.kind = "denied"
    /\ out.reason.rule \in rules

\* C9 as stated: if the full command line or any parsed sub-command matches a
\* rule that resolves to deny, the shell tool call is rejected with the
\* matched deny rule as the reason, whatever approve rules also match and
\* whatever the order of the rules.
C9_DenyAlwaysRejects ==
    (FirstInvocation /\ SomeDenyRuleMatches(shCtx.allowlist, shCtx.commandLine)) =>
        RejectedWithDenyRule(shLast.out,
                             MatchedDenyRules(shCtx.allowlist, shCtx.commandLine))

\* C9 amended: if a deny rule matches the full line or a parsed sub-command
\* in the scope the check applies it to, then a shell tool call made with a
\* session context runs the command in that invocation only on an approval
\* already recorded for the tool call; with unattended set it is rejected
\* with a matched deny rule as the reason, and otherwise (no recorded
\* decision) it asks for approval giving a matched deny rule as the reason;
\* whatever approve rules also match and whatever the order of the rules.
C9_DenyNeverAutoApproved ==
    (/\ FirstInvocation
     /\ shCtx.mode.sessionId # NoSession
     /\ AppliedDenyRules(shCtx.allowlist, shCtx.commandLine) # {}) =>
        LET denyRules == AppliedDenyRules(shCtx.allowlist, shCtx.commandLine)
            recorded == existingApproval(handlerContext(shCtx, EmptyState, NoExternalData))
        IN /\ shLast.out.kind = "execute" =>
                ~shCtx.mode.unattended /\ recorded = "approve"
           /\ shCtx.mode.unattended => RejectedWithDenyRule(shLast.out, denyRules)
           /\ (~shCtx.mode.unattended /\ recorded = "none") =>
                /\ shLast.out.kind = "requestApproval"
                /\ shLast.out.reason.kind = "denied"
                /\ shLast.out.reason.rule \in denyRules

\* a deny rule and an approve rule both match, the deny rule coming first,
\* and the unattended call is rejected with the deny rule
C9_Witness ==
    /\ FirstInvocation
    /\ shCtx.mode.sessionId # NoSession /\ shCtx.mode.unattended
    /\ Len(shCtx.allowlist) = 2
    /\ resolvesToDeny(shCtx.allowlist[1]) /\ resolvesToApprove(shCtx.allowlist[2])
    /\ ~shCtx.allowlist[1].value.isObject /\ ~shCtx.allowlist[2].value.isObject
    /\ matchesPattern(shCtx.commandLine, shCtx.allowlist[1].pat)
    /\ matchesPattern(shCtx.commandLine, shCtx.allowlist[2].pat)
    /\ RejectedWithDenyRule(shLast.out, {shCtx.allowlist[1].pat})

\* C10: in phase awaiting_approval the shell-execute and PTY-write tools
\* execute the stored command only when externalData.approvalReceived is set
\* and the choice is APPROVE; without approvalReceived they return RUNNING
\* with the same state, and for any other choice they return FAILURE without
\* executing the command.
C10_AwaitingApprovalGate ==
    shLast.in.state.phase = "awaiting_approval" =>
        /\ shLast.out.kind = "execute" =>
              /\ approvalReceived(shLast.in.ext)
              /\ shLast.in.ext.value = "APPROVE"
              /\ shLast.out.payload = shLast.in.state.data
        /\ ~approvalReceived(shLast.in.ext) =>
              /\ shLast.out.kind = "return"
              /\ shLast.out.status = ToolExecutionStatus.RUNNING
              /\ shLast.out.state = shLast.in.state
        /\ (approvalReceived(shLast.in.ext) /\ shLast.in.ext.value # "APPROVE") =>
              /\ shLast.out.kind = "return"
              /\ shLast.out.status = ToolExecutionStatus.FAILURE

\* the stored command is executed on APPROVE after a re-invocation that
\* found no decision yet
C10_Witness ==
    /\ shLast.in.state.phase = "awaiting_approval"
    /\ shLast.in.state.data # <<>>
    /\ shLast.in.ext = [kind |-> "approval", value |-> "APPROVE"]
    /\ shLast.out.kind = "execute"
    /\ shLast.out.payload = shLast.in.state.data

(***************************************************************************)
(* Claims about the Agent Loop, the session store and the Bridge.          *)
(***************************************************************************)
ChildFile == files[sessionsPath("child")]
LastMessage(record) == record.messages[Len(record.messages)]
IsPrefix(s, t) == Len(s) <= Len(t) /\ \A i \in 1..Len(s) : s[i] = t[i]
FsmEdge(from, to) ==
    \E action \in FsmActions : from \in sessionFSM[action].from /\ to = sessionFSM[action].to

\* the tick has just processed a completion without tool calls that answers a user
\* message, and no signal has interfered with the session
FinalResponseProcessed ==
    /\ ev.type = "response"
    /\ ev.what = "final"
    /\ signals = 0
    /\ Len(ChildFile.messages) >= 2
    /\ ChildFile.messages[Len(ChildFile.messages) - 1].role = "user"

\* C1: when the session is RUNNING with a user message last and the provider returns
\* a response without tool calls whose finish_reason is stop, the tick appends the
\* merged assistant message, the session becomes SUCCESS and the loop stops.
C1_FinalResponseCompletes ==
    FinalResponseProcessed =>
        /\ LastMessage(ChildFile).role = "assistant"
        /\ ChildFile.status = SessionState.SUCCESS
        /\ ~isRunning

\* C2: every change of a session's persisted status is an edge of the session FSM;
\* no write of the record replaces a status written in the meantime.
C2_StatusChangesAreFsmEdges ==
    [][\A d \in Dirs :
         files'[d].status # files[d].status => FsmEdge(files[d].status, files'[d].status)]_vars

\* C4: the persisted message log only grows by appends: every saved version of the
\* log extends the version saved before it.
C4_LogOnlyGrows ==
    [][\A d \in Dirs : IsPrefix(files[d].messages, files'[d].messages)]_vars

\* C3: status transitions on one session are linearizable: when the host and the
\* child call SessionModel.transition on the session concurrently, every call's
\* result and the final status are those of the calls run one after another in some
\* order.  In any such order the host's call meets a status the session's record
\* held between the call's start and its return, so the result it returns is the
\* FSM's result for one of those statuses.
C3_HostResultLinearizes ==
    [][ev'.type = "lifecycleResult"
       => \E status \in hostCall.statuses :
             (ev'.what = "success") <=> fsmTransition(status, hostCall.action).success]_vars

\* a tick has just passed the status checks of a RUNNING session that no signal has
\* touched: it called the provider, resumed pending tool calls, or found nothing to do
ActingTick ==
    /\ ev.type = "tick"
    /\ ev.what \in {"provider", "resume", "skipped", "nothing"}
    /\ signals = 0

\* the tick resumes the tool calls of the last assistant message, id among them
Resumes(id) == ev.what = "resume" /\ \E j \in DOMAIN toolCalls : toolCalls[j].id = id

ApprovedData == [kind |-> "approval", value |-> "APPROVE"]
AnswerData == [kind |-> "answer", value |-> Answer]

\* C5: once the approval of tool call T is resolved with APPROVE and delivered, the
\* next tick that finds the session RUNNING re-invokes the handler of T, which then
\* receives approvalReceived = true and choice = APPROVE.
C5_ApprovedCallReinvoked ==
    \A id \in CallIds :
        (ActingTick /\ callHistory[id].injected = ApprovedData) => Resumes(id)

\* C6: an invocation that follows one that returned RUNNING with state v receives
\* exactly v as its state, and the external data delivered for the tool call in the
\* meantime, in the child and on the host alike.
C6_StateAndExternalDataCarried ==
    [][(/\ ev'.type \in {"invoke", "hostInvoke"}
        /\ callHistory[ev'.id].returned # NotReturned)
       => /\ ev'.state = callHistory[ev'.id].returned
          /\ callHistory[ev'.id].injected # NoExternalData
                => ev'.ext = callHistory[ev'.id].injected]_vars

\* C7: after human__ask returned RUNNING for tool call Q and the human answered, the
\* next tick re-invokes the tool for Q with the answer as external data, and the tool
\* completes with SUCCESS and that answer.
C7_AnswerCompletesAsk ==
    \A id \in CallIds :
        /\ (ActingTick /\ callHistory[id].injected = AnswerData) => Resumes(id)
        /\ (ev.type = "hostInvoke" /\ ev.id = id /\ ev.ext = AnswerData)
               => ev.what = ToolExecutionStatus.SUCCESS

(***************************************************************************)
(* Claims about unattended mode.                                           *)
(***************************************************************************)
\* the first invocation of the tool call ran the allowlist check with unattended set,
\* and the check did not approve the command
UnattendedNotApproved ==
    /\ FirstInvocation
    /\ shCtx.mode.unattended
    /\ ~checkCommand(shCtx.commandLine, shCtx.allowlist).approved

FailsInThatInvocation(out) ==
    out.kind = "return" /\ out.status = ToolExecutionStatus.FAILURE

\* C11 as stated: with unattended = true, a shell tool call whose allowlist check is
\* not approved returns FAILURE in that same invocation; no approval_request is
\* emitted (so no Approval record is created and the session is not paused).
C11_UnattendedAlwaysFails ==
    UnattendedNotApproved => FailsInThatInvocation(shLast.out)

\* C11 amended: with unattended = true, a shell tool call made with a session
\* context whose allowlist check is not approved returns FAILURE in that same
\* invocation, naming the reason of the check, and emits no approval_request;
\* whatever approvals are on record.  Without a session context the command is
\* executed, and no approval_request is emitted either.
C11_UnattendedFailsInSession ==
    UnattendedNotApproved =>
        /\ shLast.out.kind # "requestApproval"
        /\ shCtx.mode.sessionId # NoSession =>
              /\ FailsInThatInvocation(shLast.out)
              /\ shLast.out.error = "unattended"
              /\ shLast.out.reason = checkCommand(shCtx.commandLine, shCtx.allowlist).reason
        /\ shCtx.mode.sessionId = NoSession =>
              shLast.out.kind \in {"execute", "return"}

\* an unattended call in a session whose command no rule approves, with an approval on
\* record for the tool call, is rejected
C11_Witness ==
    /\ UnattendedNotApproved
    /\ shCtx.mode.sessionId # NoSession
    /\ shCtx.mode.approvals # <<>>
    /\ shCtx.commandLine # <<>>
    /\ FailsInThatInvocation(shLast.out)
    /\ shLast.out.error = "unattended"

(***************************************************************************)
(* Claims about the routing of tool calls.                                 *)
(***************************************************************************)
\* C12: a tool call that the model emitted and the Agent Loop routed through the
\* Bridge, and that names a humanOnly tool, is rejected: the handler of the tool is
\* never invoked for it.
C12_HumanOnlyNeverInvoked ==
    ev.type = "invoke" =>
        \A j \in DOMAIN toolCalls :
            toolCalls[j].id = ev.id => ~humanOnly(toolCalls[j].name)

(***************************************************************************)
(* Claims about the session state machine.                                 *)
(***************************************************************************)
\* the last step was a call of SessionModel.transition
TransitionReturned == ev.type = "transition"
CalledAction == ev.state.phase
CalledFrom == ev.state.data[1]
CalledIn == sessionsPath(ev.ext.kind)

Terminal(status) == status \in {"approve", "reject", "modify"}

\* C14: an Approval record that has reached a terminal status (approve, reject or
\* modify) keeps that status in every later step: it never changes status again
\* and never returns to pending, and an approve command for a record that is not
\* pending is rejected and changes no record.
C14_TerminalIsFinal ==
    [][/\ \A i \in DOMAIN approvals :
            Terminal(approvals[i].status) =>
               /\ i \in DOMAIN approvals'
               /\ approvals'[i].status = approvals[i].status
       /\ ev'.type = "approveRejected" => approvals' = approvals]_vars

\* the child has just handled the approval_response of a resolved approval
ResolutionDelivered == ev.type = "inject" /\ approvalReceived(ev.ext)

\* C15: the resolution of an approval that has become terminal reaches the child
\* that owns it: when the approval_response is handled in the child, the decision is
\* set as externalData on the state of the tool call the approval was made for.
C15_ResolutionSetsExternalData ==
    ResolutionDelivered =>
        /\ ev.what = "stored"
        /\ toolCallStates["child"][ev.id].externalData = ev.ext
        /\ \E i \in DOMAIN approvals :
              /\ approvals[i].toolCallId = ev.id
              /\ Terminal(approvals[i].status)

(***************************************************************************)
(* Claims about the socket between the child and the host.                 *)
(***************************************************************************)
\* the call of Bridge.sendToHost that the tick awaits returns a value
SendToHostReturns ==
    /\ pc \in {"awaitHost", "awaitAck"}
    /\ pc' = "loop"
    /\ ev'.what # "timeout"

\* the data handler takes a line that answers a request other than the pending one
OtherResponseTaken ==
    /\ toContainer # <<>>
    /\ toContainer' = Tail(toContainer)
    /\ Head(toContainer).messageId \notin {NoMessage, pendingMessage}

\* C16: sendToHost(m) returns a value only when a line with the messageId of m has
\* been received from the host, and the value is that line (the host's answer to
\* the tool call m was sent for); a line that answers another request resolves no
\* pending request.
C16_ResponseMatchesRequest ==
    [][/\ SendToHostReturns =>
            /\ toContainer # <<>>
            /\ Head(toContainer).messageId = pendingMessage
            /\ Head(toContainer).toolCallId = toolCalls[ti].id
            /\ ev'.what = Head(toContainer).status
            /\ toContainer' = Tail(toContainer)
       /\ OtherResponseTaken => pendingMessage' = pendingMessage /\ pc' = pc]_vars

\* a response is delivered to the second request after the first request timed out
C16_Witness ==
    /\ ev.type = "returned"
    /\ ev.what # "timeout"
    /\ timeouts = 1
    /\ messageCounter = 2
    /\ pendingMessage = NoMessage
    /\ pc = "loop"

\* the entry of the pending request leaves pendingMessages
EntryRemoved == pendingMessage # NoMessage /\ pendingMessage' # pendingMessage
\* the line at the head of the socket answers the pending request and is taken
ResponseArrives ==
    /\ toContainer # <<>>
    /\ Head(toContainer).messageId = pendingMessage
    /\ toContainer' = Tail(toContainer)
\* the 5 s timer of the pending request fires
DeadlineFires == timeouts' = timeouts + 1
\* the data handler takes a line with a messageId that no pending request has
StaleResponseTaken ==
    /\ toContainer # <<>>
    /\ toContainer' = Tail(toContainer)
    /\ Head(toContainer).messageId # NoMessage
    /\ Head(toContainer).messageId # pendingMessage

ProviderThrew == ev.type = "response" /\ ev.what = "error"
\* the deadline of a Bridge call made by the running tick has fired
BridgeCallThrew == ev.type = "returned" /\ ev.what = "timeout"

\* C18: an exception thrown by a Bridge call, a tool handler or the provider call
\* does not leave the tick: it is caught inside the tick and becomes a FAILURE
\* outcome, after which the tick goes on (a failed tool call gets its tool message
\* and the loop moves to the next call).
C18_ExceptionsStayInTick ==
    /\ BridgeCallThrew =>
          /\ pc = "loop"
          /\ session.messages[Len(session.messages)] =
                ToolMessage(ev.id, <<"Socket timeout (5s)">>)
    /\ ProviderThrew => Busy

(***************************************************************************)
(* Claims about who writes the session record.                             *)
(***************************************************************************)
HostFile == files[sessionsPath("host")]
\* the host process has appended a message to the log of its session record
HostAppends ==
    /\ HostFile # Absent
    /\ Len(HostFile'.messages) > Len(HostFile.messages)

\* C19: whenever the host process appends to the message log of a session, the
\* message is the synthetic tool message of an answered question and the persisted
\* status of the session is paused at that moment.
C19_HostAppendsOnlyAnswers ==
    [][HostAppends =>
          /\ LastMessage(HostFile').role = "tool"
          /\ HostFile.status = SessionState.PAUSED]_vars

\* the host has just loaded the session at the start of a lifecycle command, after
\* the child has saved the session record at least once
HostLoadsAfterChildSave == ev.type = "lifecycle" /\ pc # "boot"

\* C20: the record the child saved last (its status and its messages) is what the
\* host's next SessionModel.load of that session returns, with no invalidation
\* message sent in between.
C20_HostLoadsWhatChildSaved ==
    HostLoadsAfterChildSave => hostCall.loaded = ChildFile

(***************************************************************************)
(* Claims about command resolution.                                        *)
(***************************************************************************)
Resolved == rcResult # NoResolution
\* the tools whose alias matches the argv, by plugin and place in the plugin
AliasHits ==
    {pt \in {<<p, t>> : p \in DOMAIN rcInput.catalog, t \in 1..MaxTools} :
       /\ pt[2] \in DOMAIN rcInput.catalog[pt[1]]
       /\ aliasMatches(rcInput.catalog[pt[1]][pt[2]], rcInput.argv)}
Earlier(x, y) == x[1] < y[1] \/ (x[1] = y[1] /\ x[2] <= y[2])
\* the lengths of the leading parts of the argv that are registered tool names
RegisteredPrefixes ==
    {n \in 1..Len(rcInput.argv) :
       dslRegistryHas(rcInput.catalog, SubSeq(rcInput.argv, 1, n))}

\* C21: if the alias of any tool matches the argv, the command resolves to the
\* matching tool that was registered first; otherwise it resolves to the longest
\* "__"-concatenation of leading argv words that is a registered tool name.
C21_AliasFirstElseLongest ==
    Resolved =>
        /\ AliasHits # {} =>
              \E pt \in AliasHits :
                 /\ \A other \in AliasHits : Earlier(pt, other)
                 /\ rcResult.cmd = rcInput.catalog[pt[1]][pt[2]].name
        /\ (AliasHits = {} /\ RegisteredPrefixes # {}) =>
              \E n \in RegisteredPrefixes :
                 /\ \A m \in RegisteredPrefixes : m <= n
                 /\ rcResult.cmd = SubSeq(rcInput.argv, 1, n)

(***************************************************************************)
(* Claims about the merged assistant message.                              *)
(***************************************************************************)
Merged == mgResult # NotMerged
LastChoice == mgInput.choices[Len(mgInput.choices)]

\* C22: the finish_reason of the merged assistant message is tool_calls if any
\* choice of the response has finish_reason tool_calls, and otherwise it is the
\* finish_reason of the last choice.
C22_MergedFinishReason ==
    Merged =>
        mgResult.finish_reason =
           IF \E i \in DOMAIN mgInput.choices :
                 mgInput.choices[i].finish_reason = "tool_calls"
           THEN "tool_calls"
           ELSE LastChoice.finish_reason

(***************************************************************************)
(* Claims about the record store.                                          *)
(***************************************************************************)
Cached == {id \in Ids : items[id] # NoItem}

\* C24: after save() returns, every id in the collection's in-memory cache has
\* its file <id>.yml in the directory, also when another process wrote the
\* directory.
C24_CachedIdsHaveFiles ==
    stLast.op = "save" => \A id \in Cached : disk[id] # NoFile

\* C25: when the file of a record cannot be parsed, get(id) returns undefined
\* and getAll() omits the record: no value cached earlier is returned for it.
C25_UnreadableIsAbsent ==
    /\ stLast.op = "get" /\ disk[stLast.id] = Unparsable => stLast.value = NoItem
    /\ stLast.op = "getAll" => \A id \in stLast.value : disk[id] # Unparsable

\* C26: after delete(id) of an id that list() returns, get(id) returns undefined
\* at once and the save() that follows removes the file <id>.yml, whether or
\* not the id had been loaded into the cache before.
C26_DeleteHidesAndSaveRemoves ==
    stLast.op = "delete" /\ stLast.id \in scanFiles(Collection) =>
        /\ collectionGet(Collection, stLast.id).value = NoItem
        /\ collectionSave(Collection).disk[stLast.id] = NoFile

(***************************************************************************)
(* Claims about the session ids.                                           *)
(***************************************************************************)
\* C23: every id that generateId returns differs from the id of every session
\* whose record file or workspace exists at that moment.
C23_GeneratedIdIsFresh ==
    idLast.id \notin idLast.files \cup idLast.workspaces

(***************************************************************************)
(* Claims about the groups.                                                *)
(***************************************************************************)
GroupsOf(id) ==
    {g \in GroupNames : groups.items[g] # NoItem /\ id \in members(groups.items[g])}

\* C27: at all times every session id is a member of at most one group.
C27_AtMostOneGroup ==
    \A id \in MemberIds : Cardinality(GroupsOf(id)) <= 1

(***************************************************************************)
(* Claims about the recovery scan.                                         *)
(***************************************************************************)
\* C28: the recovery scan visits every session whose persisted status is
\* pending, running or paused and respawns it exactly when its container is not
\* running (afterwards every such container runs); it neither respawns nor
\* transitions a session whose status is success, error or stopped.
C28_RecoveryVisitsActive ==
    recovery.done =>
        \A id \in RecIds :
            IF persisted[id].deletedAt THEN TRUE
            ELSE IF persisted[id].status \in ActiveStatuses
                 THEN id \in recovery.visited /\ containers[id] = "running"
                 ELSE id \notin recovery.respawned \cup recovery.transitioned

(***************************************************************************)
(* Claims about the socket.                                                *)
(***************************************************************************)
StartedLines == {lnStarted[i] : i \in DOMAIN lnStarted}

\* C29: the receiver does not start handling a line before the handling of
\* every line sent earlier on the socket has completed.
C29_HandledInSendOrder ==
    \A later \in StartedLines : \A earlier \in 1..(later - 1) : earlier \in lnCompleted

(***************************************************************************)
(* Claims about the single-shot CLI.                                       *)
(***************************************************************************)
\* C30: with a turn limit L the loop makes at most L provider calls, and once L
\* turns have been used the process has exited.
C30_AtMostLimitCalls ==
    /\ turnCount <= effectiveTurnLimit
    /\ turnCount = effectiveTurnLimit => exitCode # StillRunning

\* C40: for every set(id, v) that no other set or delete of id has followed, the
\* next save() writes exactly v to <id>.yml, whatever get, getAll, loadAll or
\* another process did between the set and the save.
C40_SaveWritesLastSet ==
    [][stLast'.op = "save" =>
          \A id \in Ids : lastSet[id] # NoItem => disk'[id] = lastSet[id]]_vars

(***************************************************************************)
(* Claims about the tool calls of the agent loop.                          *)
(***************************************************************************)
\* the messages of the session as the child has persisted them
Log == files[sessionsPath("child")].messages

\* a tool message with this tool_call_id is in the log
Answered(id) == \E i \in DOMAIN Log : Log[i].role = "tool" /\ Log[i].tool_call_id = id

\* the tool call returned RUNNING last time, no tool message was appended for it
\* and its externalData has arrived
DataArrived(id) ==
    /\ callHistory[id].returned # NotReturned
    /\ callHistory[id].injected # NoExternalData
    /\ ~Answered(id)

\* a tick has run past the checks of the status: the session is running
TickOfRunningSession ==
    /\ ev'.type = "tick"
    /\ ev'.what \in {"resume", "provider", "skipped", "nothing", "empty"}

\* C31: a tool call that returned RUNNING is invoked again by the tick that runs
\* once its externalData has arrived and the session is running again: the tick
\* takes up the tool calls of the assistant message that carries it.
C31_RunningCallIsRevisited ==
    [][\A id \in CallIds :
          DataArrived(id) /\ TickOfRunningSession =>
              /\ ev'.what = "resume"
              /\ \E i \in DOMAIN toolCalls' : toolCalls'[i].id = id]_vars

(***************************************************************************)
(* Claims about the provider calls of the agent loop.                      *)
(***************************************************************************)
ProviderCallIssued == pc # "awaitAI" /\ pc' = "awaitAI"
ProviderCallFailed == pc = "awaitAI" /\ ev' = Did("response", "error")
ProviderCallSucceeded == pc = "awaitAI" /\ ev' \in {Did("response", "tools"), Did("response", "final")}

C33_ResumeRetriesPrompt ==
    [][ev = Did("tick", "started") /\ ev'.type = "tick" => ev'.what # "skipped"]_vars

(***************************************************************************)
(* Claims about the tool set of a tick.                                    *)
(***************************************************************************)
\* the tools of the registry that the session's tools name and that are not
\* marked humanOnly
NamedAndNotHumanOnly ==
    LET all == registryTools(gtInput.registry)
    IN {all[i].name : i \in {j \in DOMAIN all :
           /\ all[j].name \in allowedToolsOf(gtInput.metadata.tools)
           /\ ~all[j].humanOnlyFlag
           /\ all[j].name \notin humanOnlyTools}}

\* C34: the tools offered to the provider are exactly the tools of the catalog
\* that the session's tool list names and that are not marked humanOnly, for
\* every tool list, the empty list (which offers no tool) included
C34_OfferedIsNamedAndNotHumanOnly ==
    gtResult # NotGathered /\ gtInput.metadata.hasTools =>
        {gtResult.tools[i] : i \in DOMAIN gtResult.tools} = NamedAndNotHumanOnly

\* the tool calls of the assistant messages of a log that no tool message of
\* the log answers
OpenCalls(messages) ==
    {id \in CallIds :
        /\ \E i \in DOMAIN messages : \E j \in DOMAIN messages[i].tool_calls :
              messages[i].role = "assistant" /\ messages[i].tool_calls[j].id = id
        /\ ~\E i \in DOMAIN messages :
              messages[i].role = "tool" /\ messages[i].tool_call_id = id}

\* C35: the agent loop sends no provider request while the message log holds
\* an assistant tool call for which no tool message with that tool_call_id
\* has been appended
C35_NoProviderCallWithOpenToolCall ==
    [][ProviderCallIssued => OpenCalls(session'.messages) = {}]_vars

(***************************************************************************)
(* Claims about the paused session.                                        *)
(***************************************************************************)
\* the status of the session's record in the child's collection
PersistedStatus == files[sessionsPath("child")].status

\* a step of the loop over the tool calls that hands a tool call to its
\* handler or forwards it to the host
ToolHandlerInvoked == pc = "loop" /\ ev'.type \in {"invoke", "forward"}

\* C36: while the persisted status of the session is PAUSED the agent loop
\* invokes no tool handler and makes no provider call, the remaining tool calls
\* of an assistant message after an earlier call of it has paused the session
\* with an approval or question request included
C36_PausedLoopDoesNothing ==
    [][PersistedStatus = SessionState.PAUSED =>
          ~ToolHandlerInvoked /\ ~ProviderCallIssued]_vars

\* Bridge.handleApprovalRequest in the container returns to executeShell, with
\* the host's acknowledgement or with the rejection of the timer of sendToHost
ApprovalRequestReturns == pc = "awaitAck" /\ pc' = "loop"

\* C37: when an approval request for a tool call leaves the session PAUSED, a
\* pending Approval record of that tool call exists on the host and the
\* ToolCallState of the tool call is retained in phase awaiting_approval; a
\* request that could not be recorded (the round trip timed out after 5 s)
\* does not leave the session PAUSED
C37_PausedHasPendingApproval ==
    [][ApprovalRequestReturns /\ PersistedStatus' = SessionState.PAUSED =>
          /\ \E i \in DOMAIN approvals' :
                /\ approvals'[i].toolCallId = toolCalls[ti].id
                /\ approvals'[i].status = "pending"
          /\ toolCallStates'["child"][toolCalls[ti].id] # NoEntry
          /\ toolCallStates'["child"][toolCalls[ti].id].state.phase = "awaiting_approval"]_vars

(***************************************************************************)
(* Claims about the first invocation of the shell tools.                   *)
(***************************************************************************)
\* an Approval with status approve is on record for the session and the tool
\* call of the invocation
ApproveOnRecord ==
    \E i \in DOMAIN shCtx.mode.approvals :
        /\ shCtx.mode.approvals[i].toolCallId = TheCall
        /\ shCtx.mode.approvals[i].sessionId = shCtx.mode.sessionId
        /\ shCtx.mode.approvals[i].status = "approve"

\* the first invocation of the tool ran the command
RanInPhaseInitial == FirstInvocation /\ shLast.out.kind = "execute"

\* C38 as stated: in phase initial the shell-execute and PTY-write tools run
\* the command in that invocation only if the allowlist check approved it or
\* an Approval with status approve is recorded for the same session and
\* toolCallId, for every invocation context, a missing or zero session id
\* included
C38_RunsOnlyIfApproved ==
    RanInPhaseInitial =>
        \/ checkCommand(shCtx.commandLine, shCtx.allowlist).approved
        \/ ApproveOnRecord

\* C38 amended: in phase initial the shell-execute and PTY-write tools run the
\* command in that invocation only if the allowlist check approved it, or the
\* invocation has no session context (a missing or zero session id), or the
\* session is attended and an Approval with status approve is recorded for the
\* same session and toolCallId
C38_RunsOnlyIfApprovedOrNoSession ==
    RanInPhaseInitial =>
        \/ checkCommand(shCtx.commandLine, shCtx.allowlist).approved
        \/ shCtx.mode.sessionId = NoSession
        \/ ~shCtx.mode.unattended /\ ApproveOnRecord

\* a command that the allowlist does not approve runs in the first invocation
\* of an attended session on the approval that is on record for the tool call
C38_Witness ==
    /\ RanInPhaseInitial
    /\ shCtx.mode.sessionId # NoSession
    /\ ~checkCommand(shCtx.commandLine, shCtx.allowlist).approved
    /\ ApproveOnRecord
    /\ shLast.out.payload = shCtx.commandLine

(***************************************************************************)
(* Claims about the host's connection registry.                            *)
(***************************************************************************)
\* the open connections that a session's server has accepted
OpenConnections(sessionId) ==
    {c \in ConnectionIds : sockets[c].sessionId = sessionId /\ sockets[c].open}

\* every accepted connection of the session has been through registerConnection
AllRegistered(sessionId) ==
    \A c \in ConnectionIds : sockets[c].sessionId = sessionId => sockets[c].registered

\* C39: whenever a session has an open accepted connection, the registry maps
\* the session id to the most recently accepted open connection; the close of
\* an earlier connection of the session neither removes nor replaces the
\* registration of a later one
C39_RegistryHoldsLatestOpen ==
    \A sessionId \in ConnSessionIds :
        (OpenConnections(sessionId) # {} /\ AllRegistered(sessionId)) =>
            hostConnections[sessionId] = Max(OpenConnections(sessionId))
====
